---------------------------- MODULE Spec2Model ----------------------------
(***************************************************************************)
(* The ledger, NFT and auction core of the marketplace back end.           *)
(*                                                                         *)
(* The store is the relational tables (nfts, transactions, auctions,       *)
(* bids); a request handler is a process that runs one database statement  *)
(* per step, so two handlers interleave between their statements exactly   *)
(* as two HTTP requests do.  `reqs` holds, per handler slot, the position  *)
(* of a handler in flight and the values it has read so far; `response`    *)
(* is the response that the last step sent, if it sent one.                *)
(*                                                                         *)
(* Amounts are DOUBLE PRECISION columns holding decimal quantities; they   *)
(* are counted here in thousandths of the reference unit (0.1 is 100,      *)
(* 0.01 is 10), so sums and comparisons are those of the decimal values.   *)
(* Time is counted in seconds, the clock starting at 0.                    *)
(***************************************************************************)
EXTENDS Integers, Sequences, FiniteSets, TLC

VARIABLES
    now,            \* the server clock (Date.now()), in seconds
    nfts,           \* table nfts: sequence of rows, the row's id is its index
    transactions,   \* table transactions, in insertion order
    auctions,       \* table auctions, the row's id is its index
    bids,           \* table bids, in insertion order
    stockPurchases, \* table stock_purchases, the row's id is its index
    withdrawalRequests, \* table withdrawal_requests, the row's id is its index
    accounts,       \* table users: the row of each account, by its id
    rateLimitMap,   \* lib/auth rateLimitMap: identifier -> count and resetTime
    emailVerificationAttempts, \* table email_verification_attempts
    reqs,           \* the request handlers in flight: position and values read
    response        \* the response the last step sent: the finished handler's record

tables == <<nfts, transactions, auctions, bids, stockPurchases, withdrawalRequests>>

\* The accounts and the process memory that guards the endpoints.
access == <<accounts, rateLimitMap, emailVerificationAttempts>>

vars == <<now, nfts, transactions, auctions, bids, stockPurchases,
          withdrawalRequests, accounts, rateLimitMap, emailVerificationAttempts,
          reqs, response>>

---------------------------------------------------------------------------
(* Bounds of the model.                                                    *)

MaxInFlight == 2
MaxNFT == 2
MaxTx == 4
MaxAuction == 2
MaxBid == 3
MaxStock == 2
MaxWithdrawal == 1
MaxTime == 2
MaxMoment == 1
ScenarioMints == 11

---------------------------------------------------------------------------
(* Program constants.                                                      *)

\* const MINT_FEE = 0.1
MINT_FEE == 100
\* currentHighestBid.amount + 0.01
BID_INCREMENT == 10
\* 3600000 ms, the hour of `duration * 60 * 60 * 1000` and of the profit
\* accrual, in the seconds of this clock.
Hour == 3600

\* A nullable column that is NULL / an optional input that is absent.
Null == 0

Slots == 1..MaxInFlight

\* The authenticated principals (requireAuth) and the isAdmin flag of the token.
Users == {"alice", "bob", "admin"}
isAdmin(u) == u = "admin"

\* Table collections; no endpoint of this model changes it.
collections == [c1 |-> [creatorId |-> "alice"]]
CollectionInputs == {"none", "c1", "cX"}

TransactionTypes == {"SALE", "TRANSFER", "MINT", "DEPOSIT", "WITHDRAWAL"}

---------------------------------------------------------------------------
(* Helpers over sequences.                                                 *)

Idx(s) == 1..Len(s)

RECURSIVE SumAmount(_, _)
\* Prisma aggregate _sum.amount over the rows of `rows` at the indices `S`.
SumAmount(rows, S) ==
    IF S = {} THEN 0
    ELSE LET i == CHOOSE x \in S : TRUE
         IN rows[i].amount + SumAmount(rows, S \ {i})

\* db.transaction.aggregate({ where: { userId, type in types }, _sum: { amount } })
\* with `|| 0` for the null sum of an empty selection.
AggregateSum(userId, types) ==
    SumAmount(transactions,
              {i \in Idx(transactions) :
                  /\ transactions[i].userId = userId
                  /\ transactions[i].type \in types})

---------------------------------------------------------------------------
(* The Ledger Aggregator: the two places that compute a balance.           *)

\* A balance that forgets the mint fees.
availableBalance_IgnoresMints(userId) ==
    AggregateSum(userId, {"DEPOSIT"}) - AggregateSum(userId, {"WITHDRAWAL"})

\* POST /api/nfts: credits - debits, debits = withdrawals + mints.
availableBalance(userId) ==
    LET credits == AggregateSum(userId, {"DEPOSIT"})
        debits  == AggregateSum(userId, {"WITHDRAWAL"}) + AggregateSum(userId, {"MINT"})
    IN  credits - debits

\* GET /api/users/[id]: stats.walletBalance.
walletBalance(userId) ==
    LET walletCredits == AggregateSum(userId, {"DEPOSIT"})
        walletDebits  == AggregateSum(userId, {"WITHDRAWAL", "MINT"})
    IN  walletCredits - walletDebits

---------------------------------------------------------------------------
(* Accounts.  The principals of the model are registered from the start;   *)
(* POST /api/auth/register adds rows.                                      *)

\* db.user.create: the compliance columns of a new row.
NewAccount(preferredCurrency) ==
    [preferredCurrency |-> preferredCurrency,
     withdrawalPinHash |-> "none",
     withdrawalPinAttempts |-> 0,
     withdrawalPinLockedUntil |-> Null,
     withdrawalPinValidated |-> FALSE]

\* A currency code is the sequence of its characters.
USD == <<"U", "S", "D">>
EUR == <<"E", "U", "R">>
RSD == <<"R", "S", "D">>

InitialAccounts == [u \in Users |-> NewAccount(USD)]

---------------------------------------------------------------------------
(* Rows that DELETE /api/nfts/[id] has removed.  A row id is the index of  *)
(* the row, so a removed NFT or auction leaves its place behind.           *)

DeletedNFT ==
    [creatorId |-> "none", ownerId |-> "none", isListed |-> FALSE,
     isSold |-> FALSE, price |-> Null]

DeletedAuction ==
    [nftId |-> Null, sellerId |-> "none", startPrice |-> Null,
     currentPrice |-> Null, startTime |-> Null, endTime |-> Null,
     isActive |-> FALSE]

\* db.nFT.findUnique({ where: { id } }) returns a row.
NFTExists(nftId) == nftId \in Idx(nfts) /\ nfts[nftId] # DeletedNFT

\* db.auction.findUnique({ where: { id } }) returns a row.
AuctionExists(auctionId) ==
    auctionId \in Idx(auctions) /\ auctions[auctionId] # DeletedAuction

---------------------------------------------------------------------------
(* Request handlers.  A slot is free when no handler runs in it; a handler  *)
(* that responds frees its slot and its record is the step's `response`    *)
(* (IdleReq after a step that sends no response).                          *)

IdleReq ==
    [kind |-> "none", pc |-> "idle", user |-> "none", result |-> "none",
     nftId |-> Null, auctionId |-> Null, amount |-> Null, price |-> Null,
     isListed |-> "unset", collectionId |-> "none", endTime |-> Null,
     startTime |-> Null, availableBalance |-> Null, walletBalance |-> Null,
     minimumBid |-> Null, claimedUSD |-> Null,
     ip |-> "none", email |-> "none",
     body |-> [provided |-> FALSE, preferredCurrency |-> <<>>],
     preferredCurrency |-> <<>>,
     identifier |-> "none", count |-> Null,
     context |-> "none", outcome |-> "none",
     reply |-> [status |-> Null, fields |-> {}, success |-> FALSE, text |-> "none"],
     value |-> "none", ok |-> FALSE, attempts |-> Null, lockUntil |-> Null,
     status |-> "none", rowId |-> Null, updates |-> {}]

Free(r) == reqs[r].pc = "idle"

AtPc(r, kind, pc) == reqs[r].kind = kind /\ reqs[r].pc = pc

\* return NextResponse.json(...): the handler ends with `result`.
Respond(req, result) == [req EXCEPT !.pc = "done", !.result = result]

\* The handler in slot r goes on as `req`: it waits for its next statement, or
\* it has responded.
Proceed(r, req) ==
    IF req.pc = "done"
    THEN /\ reqs' = [reqs EXCEPT ![r] = IdleReq]
         /\ response' = req
    ELSE /\ reqs' = [reqs EXCEPT ![r] = req]
         /\ response' = IdleReq

\* The catch block of a handler: a statement failed in the store.
Fail(r) ==
    /\ reqs[r].pc \in {"commit", "auctionCheck", "existingCheck"}
    /\ Proceed(r, Respond(reqs[r], "InternalError"))
    /\ UNCHANGED <<now, access, tables>>

Init ==
    /\ now = 0
    /\ nfts = <<>>
    /\ transactions = <<>>
    /\ auctions = <<>>
    /\ bids = <<>>
    /\ stockPurchases = <<>>
    /\ withdrawalRequests = <<>>
    /\ accounts = InitialAccounts
    /\ rateLimitMap = <<>>
    /\ emailVerificationAttempts = <<>>
    /\ reqs = [r \in Slots |-> IdleReq]
    /\ response = IdleReq

---------------------------------------------------------------------------
(* POST /api/transactions: an admin records a ledger row.                  *)

\* The checks before the insert, then db.transaction.create; P2002 on a
\* transactionHash that a row already has.
CreateTransaction(r, u, type, nftId, userId, amount, hash) ==
    /\ Free(r)
    /\ LET req == [IdleReq EXCEPT !.kind = "transaction", !.user = u,
                                  !.nftId = nftId, !.amount = amount]
       IN
       IF ~isAdmin(u) THEN
           Proceed(r, Respond(req, "Forbidden")) /\ UNCHANGED transactions
       ELSE IF nftId # Null /\ ~NFTExists(nftId) THEN
           Proceed(r, Respond(req, "NotFound")) /\ UNCHANGED transactions
       ELSE IF userId \notin Users THEN
           Proceed(r, Respond(req, "NotFound")) /\ UNCHANGED transactions
       ELSE IF \E i \in Idx(transactions) : transactions[i].transactionHash = hash THEN
           Proceed(r, Respond(req, "DuplicateHash")) /\ UNCHANGED transactions
       ELSE
           /\ transactions' = Append(transactions,
                  [type |-> type, userId |-> userId, amount |-> amount,
                   nftId |-> nftId, transactionHash |-> hash])
           /\ Proceed(r, [Respond(req, "ok") EXCEPT !.rowId = Len(transactions) + 1])
    /\ UNCHANGED <<now, access, nfts, auctions, bids, stockPurchases, withdrawalRequests>>

---------------------------------------------------------------------------
(* POST /api/nfts: mint an NFT against the mint fee.                       *)

NewNFT(u, price) ==
    [creatorId |-> u, ownerId |-> u, isListed |-> TRUE, isSold |-> FALSE,
     price |-> price]

\* A MINT row of twice the fee.
MintTransaction_DoubleFee(u) ==
    [type |-> "MINT", userId |-> u, amount |-> 2 * MINT_FEE, nftId |-> Null,
     transactionHash |-> "uuid"]

MintTransaction(u) ==
    [type |-> "MINT", userId |-> u, amount |-> MINT_FEE, nftId |-> Null,
     transactionHash |-> "uuid"]

\* A balance check that only refuses a negative balance.
InsufficientBalance_OnlyNegative(balance) == balance < 0

\* if (availableBalance < MINT_FEE) return 400
InsufficientBalance(balance) == balance < MINT_FEE

\* Validation of the collection, then the balance read and its check.
MintBegin(r, u, price, coll) ==
    /\ Free(r)
    /\ LET req == [IdleReq EXCEPT !.kind = "mint", !.user = u, !.price = price,
                                  !.collectionId = coll]
           bal == availableBalance(u)
       IN
       Proceed(r,
           IF coll # "none" /\ coll \notin DOMAIN collections THEN
               Respond(req, "NotFound")
           ELSE IF coll # "none" /\ collections[coll].creatorId # u /\ ~isAdmin(u) THEN
               Respond(req, "Forbidden")
           ELSE IF InsufficientBalance(bal) THEN
               Respond([req EXCEPT !.availableBalance = bal], "InsufficientBalance")
           ELSE
               [req EXCEPT !.pc = "commit", !.availableBalance = bal])
    /\ UNCHANGED <<now, access, tables>>

\* A mint that writes the NFT and no MINT row.
MintCommit_NoDebit(r) ==
    /\ AtPc(r, "mint", "commit")
    /\ nfts' = Append(nfts, NewNFT(reqs[r].user, reqs[r].price))
    /\ Proceed(r, [Respond(reqs[r], "ok") EXCEPT !.nftId = Len(nfts) + 1])
    /\ UNCHANGED <<now, access, transactions, auctions, bids, stockPurchases,
                   withdrawalRequests>>

\* db.$transaction([nFT.create, transaction.create]): both rows are written
\* in one unit (a failure of the unit is Fail: neither row).
MintCommit(r) ==
    /\ AtPc(r, "mint", "commit")
    /\ nfts' = Append(nfts, NewNFT(reqs[r].user, reqs[r].price))
    /\ transactions' = Append(transactions, MintTransaction(reqs[r].user))
    /\ Proceed(r, [Respond(reqs[r], "ok") EXCEPT !.nftId = Len(nfts) + 1,
                                                 !.rowId = Len(transactions) + 1])
    /\ UNCHANGED <<now, access, auctions, bids, stockPurchases, withdrawalRequests>>

---------------------------------------------------------------------------
(* POST /api/nfts/[id]/purchase                                            *)

\* db.auction.findFirst({ where: { nftId, isActive: true, endTime: { gt: new Date() } } })
ActiveAuctions(nftId) ==
    {a \in Idx(auctions) :
        /\ auctions[a].nftId = nftId
        /\ auctions[a].isActive
        /\ auctions[a].endTime > now}

\* A purchase recorded as a debit of the buyer.
SaleTransaction_AsDebit(u, nftId, price) ==
    [type |-> "MINT", userId |-> u, amount |-> price, nftId |-> nftId,
     transactionHash |-> "tx"]

\* The SALE row of a purchase; its hash is `tx_${Date.now()}_${random}`.
SaleTransaction(u, nftId, price) ==
    [type |-> "SALE", userId |-> u, amount |-> price, nftId |-> nftId,
     transactionHash |-> "tx"]

\* tx.nFT.update({ data: { ownerId, isSold: true, isListed: false } })
SoldTo(nft, u) == [nft EXCEPT !.ownerId = u, !.isSold = TRUE, !.isListed = FALSE]

\* A check that looks at isListed alone.
Unavailable_NotListed(nft) == ~nft.isListed

\* if (!nft.isListed || nft.isSold) return 400
Unavailable(nft) == ~nft.isListed \/ nft.isSold

\* db.nFT.findUnique and the checks on the row it returned.
PurchaseBegin(r, u, nftId) ==
    /\ Free(r)
    /\ LET req == [IdleReq EXCEPT !.kind = "purchase", !.user = u, !.nftId = nftId]
       IN
       Proceed(r,
           IF ~NFTExists(nftId) THEN
               Respond(req, "NotFound")
           ELSE IF Unavailable(nfts[nftId]) THEN
               Respond(req, "Unavailable")
           ELSE IF nfts[nftId].ownerId = u THEN
               Respond(req, "SelfPurchase")
           ELSE
               [req EXCEPT !.pc = "auctionCheck", !.price = nfts[nftId].price])
    /\ UNCHANGED <<now, access, tables>>

\* A handler without the active-auction query.
PurchaseAuctionCheck_NoQuery(r) ==
    /\ AtPc(r, "purchase", "auctionCheck")
    /\ Proceed(r,
           IF reqs[r].price = Null \/ reqs[r].price <= 0 THEN
               Respond(reqs[r], "InvalidPrice")
           ELSE
               [reqs[r] EXCEPT !.pc = "commit"])
    /\ UNCHANGED <<now, access, tables>>

\* The active-auction query, then the price check on the row read before.
PurchaseAuctionCheck(r) ==
    /\ AtPc(r, "purchase", "auctionCheck")
    /\ Proceed(r,
           IF ActiveAuctions(reqs[r].nftId) # {} THEN
               Respond(reqs[r], "ActiveAuction")
           ELSE IF reqs[r].price = Null \/ reqs[r].price <= 0 THEN
               Respond(reqs[r], "InvalidPrice")
           ELSE
               [reqs[r] EXCEPT !.pc = "commit"])
    /\ UNCHANGED <<now, access, tables>>

\* A purchase that changes the ownership and writes no SALE row.
PurchaseCommit_NoSale(r) ==
    /\ AtPc(r, "purchase", "commit")
    /\ NFTExists(reqs[r].nftId)
    /\ nfts' = [nfts EXCEPT ![reqs[r].nftId] = SoldTo(@, reqs[r].user)]
    /\ Proceed(r, Respond(reqs[r], "ok"))
    /\ UNCHANGED <<now, access, transactions, auctions, bids, stockPurchases,
                   withdrawalRequests>>

\* db.$transaction(async tx => { transaction.create; nFT.update }): both
\* writes in one unit (a failure of the unit is Fail: neither write).  On an
\* NFT removed meanwhile the insert breaks transactions_nftId_fkey: only Fail.
PurchaseCommit(r) ==
    /\ AtPc(r, "purchase", "commit")
    /\ NFTExists(reqs[r].nftId)
    /\ transactions' = Append(transactions,
           SaleTransaction(reqs[r].user, reqs[r].nftId, reqs[r].price))
    /\ nfts' = [nfts EXCEPT ![reqs[r].nftId] = SoldTo(@, reqs[r].user)]
    /\ Proceed(r, [Respond(reqs[r], "ok") EXCEPT !.rowId = Len(transactions) + 1])
    /\ UNCHANGED <<now, access, auctions, bids, stockPurchases, withdrawalRequests>>

---------------------------------------------------------------------------
(* PUT /api/nfts/[id]                                                      *)

\* lib/auth validateNFTOwnership: an admin, the creator or the owner.
validateNFTOwnership(userId, nftId, admin) ==
    IF admin THEN TRUE
    ELSE IF NFTExists(nftId)
         THEN nfts[nftId].creatorId = userId \/ nfts[nftId].ownerId = userId
         ELSE FALSE

\* The data of db.nFT.update: only the fields the body gives.
UpdatedNFT(nft, price, isListed) ==
    [nft EXCEPT !.price = IF price # Null THEN price ELSE @,
                !.isListed = IF isListed # "unset" THEN isListed = "true" ELSE @]

\* findUnique and validateNFTOwnership.
UpdateBegin(r, u, nftId, price, isListed) ==
    /\ Free(r)
    /\ LET req == [IdleReq EXCEPT !.kind = "update", !.user = u, !.nftId = nftId,
                                  !.price = price, !.isListed = isListed]
       IN
       Proceed(r,
           IF ~NFTExists(nftId) THEN
               Respond(req, "NotFound")
           ELSE IF ~validateNFTOwnership(u, nftId, isAdmin(u)) THEN
               Respond(req, "Forbidden")
           ELSE
               [req EXCEPT !.pc = "commit"])
    /\ UNCHANGED <<now, access, tables>>

\* db.nFT.update, which throws on a row removed meanwhile (Fail).
UpdateCommit(r) ==
    /\ AtPc(r, "update", "commit")
    /\ NFTExists(reqs[r].nftId)
    /\ nfts' = [nfts EXCEPT ![reqs[r].nftId] =
           UpdatedNFT(@, reqs[r].price, reqs[r].isListed)]
    /\ Proceed(r, Respond(reqs[r], "ok"))
    /\ UNCHANGED <<now, access, transactions, auctions, bids, stockPurchases,
                   withdrawalRequests>>

---------------------------------------------------------------------------
(* POST /api/auctions                                                      *)

NewAuction(u, nftId, startingPrice, startTime, endTime) ==
    [nftId |-> nftId, sellerId |-> u, startPrice |-> startingPrice,
     currentPrice |-> startingPrice, startTime |-> startTime, endTime |-> endTime,
     isActive |-> TRUE]

\* findUnique, validateNFTOwnership and the isSold check.
AuctionBegin(r, u, nftId, startingPrice) ==
    /\ Free(r)
    /\ LET req == [IdleReq EXCEPT !.kind = "auction", !.user = u, !.nftId = nftId,
                                  !.price = startingPrice]
       IN
       Proceed(r,
           IF ~NFTExists(nftId) THEN
               Respond(req, "NotFound")
           ELSE IF ~validateNFTOwnership(u, nftId, isAdmin(u)) THEN
               Respond(req, "Forbidden")
           ELSE IF nfts[nftId].isSold THEN
               Respond(req, "AlreadySold")
           ELSE
               [req EXCEPT !.pc = "existingCheck"])
    /\ UNCHANGED <<now, access, tables>>

\* if (existingAuction) return 400
AlreadyActive(nftId) == ActiveAuctions(nftId) # {}

\* The existing-auction query; then endTime = Date.now() + duration hours and
\* startTime = new Date() are fixed before the insert is sent.
AuctionExistingCheck(r, duration) ==
    /\ AtPc(r, "auction", "existingCheck")
    /\ Proceed(r,
           IF AlreadyActive(reqs[r].nftId) THEN
               Respond(reqs[r], "AlreadyActive")
           ELSE
               [reqs[r] EXCEPT !.pc = "commit", !.startTime = now,
                                !.endTime = now + duration * Hour])
    /\ UNCHANGED <<now, access, tables>>

\* db.auction.create, which breaks auctions_nftId_fkey on an NFT removed
\* meanwhile (Fail).
AuctionCommit(r) ==
    /\ AtPc(r, "auction", "commit")
    /\ NFTExists(reqs[r].nftId)
    /\ auctions' = Append(auctions,
           NewAuction(reqs[r].user, reqs[r].nftId, reqs[r].price,
                      reqs[r].startTime, reqs[r].endTime))
    /\ Proceed(r, [Respond(reqs[r], "ok") EXCEPT !.auctionId = Len(auctions) + 1])
    /\ UNCHANGED <<now, access, nfts, transactions, bids, stockPurchases, withdrawalRequests>>

---------------------------------------------------------------------------
(* POST /api/auctions/[id]/bid                                             *)

BidsOf(auctionId) == {b \in Idx(bids) : bids[b].auctionId = auctionId}

\* bids: { orderBy: { amount: 'desc' }, take: 1 }: a row of the greatest
\* amount; the store picks any of them when several rows share it.
HighestBids(auctionId) ==
    {b \in BidsOf(auctionId) :
        \A c \in BidsOf(auctionId) : bids[c].amount <= bids[b].amount}

\* A minimum that asks for no increment over the highest bid.
minimumBid_NoIncrement(auctionId, highest) ==
    IF highest # Null THEN bids[highest].amount
    ELSE auctions[auctionId].startPrice

\* currentHighestBid ? currentHighestBid.amount + 0.01 : auction.startPrice
minimumBid(auctionId, highest) ==
    IF highest # Null THEN bids[highest].amount + BID_INCREMENT
    ELSE auctions[auctionId].startPrice

\* A check that also refuses the minimum itself.
BidTooLow_OrEqual(amount, minimum) == amount <= minimum

\* if (amount < minimumBid) return 400
BidTooLow(amount, minimum) == amount < minimum

\* A handler that trusts isActive and never looks at endTime.
Expired_Never(auction) == FALSE

\* if (auction.endTime <= new Date()) return 400
Expired(auction) == auction.endTime <= now

\* The checks with the already-highest check ahead of the too-low check.
BidCheck_HighestFirst(req, u, auctionId, amount, highest) ==
    IF ~auctions[auctionId].isActive THEN
        Respond(req, "Inactive")
    ELSE IF Expired(auctions[auctionId]) THEN
        Respond(req, "Expired")
    ELSE IF nfts[auctions[auctionId].nftId].ownerId = u THEN
        Respond(req, "SelfBid")
    ELSE IF highest # Null /\ bids[highest].bidderId = u THEN
        Respond(req, "AlreadyHighest")
    ELSE IF BidTooLow(amount, minimumBid(auctionId, highest)) THEN
        Respond([req EXCEPT !.minimumBid = minimumBid(auctionId, highest)], "BidTooLow")
    ELSE
        [req EXCEPT !.pc = "commit", !.minimumBid = minimumBid(auctionId, highest)]

\* The checks of the handler on the auction it read, in the order of the code;
\* the response to a bid that is too low carries minimumBid.
BidCheck(req, u, auctionId, amount, highest) ==
    IF ~auctions[auctionId].isActive THEN
        Respond(req, "Inactive")
    ELSE IF Expired(auctions[auctionId]) THEN
        Respond(req, "Expired")
    ELSE IF nfts[auctions[auctionId].nftId].ownerId = u THEN
        Respond(req, "SelfBid")
    ELSE IF BidTooLow(amount, minimumBid(auctionId, highest)) THEN
        Respond([req EXCEPT !.minimumBid = minimumBid(auctionId, highest)], "BidTooLow")
    ELSE IF highest # Null /\ bids[highest].bidderId = u THEN
        Respond(req, "AlreadyHighest")
    ELSE
        [req EXCEPT !.pc = "commit", !.minimumBid = minimumBid(auctionId, highest)]

\* bids: { orderBy: { amount: 'desc' }, take: 1 }[0], Null when there is no bid.
currentHighestBid(auctionId) ==
    IF HighestBids(auctionId) = {} THEN {Null} ELSE HighestBids(auctionId)

\* db.auction.findUnique with the NFT's owner and the highest bid, and the checks.
BidBegin(r, u, auctionId, amount) ==
    /\ Free(r)
    /\ LET req == [IdleReq EXCEPT !.kind = "bid", !.user = u,
                                  !.auctionId = auctionId, !.amount = amount]
       IN
       IF ~AuctionExists(auctionId) THEN
           Proceed(r, Respond(req, "NotFound"))
       ELSE
           \E highest \in currentHighestBid(auctionId) :
               Proceed(r, BidCheck([req EXCEPT !.nftId = auctions[auctionId].nftId],
                                   u, auctionId, amount, highest))
    /\ UNCHANGED <<now, access, tables>>

\* An insert that checks the bid again, against the bids of the table.
BidCommit_Rechecks(r) ==
    /\ AtPc(r, "bid", "commit")
    /\ AuctionExists(reqs[r].auctionId)
    /\ \E highest \in currentHighestBid(reqs[r].auctionId) :
           IF BidTooLow(reqs[r].amount, minimumBid(reqs[r].auctionId, highest)) THEN
               Proceed(r, Respond(reqs[r], "BidTooLow")) /\ UNCHANGED bids
           ELSE
               /\ bids' = Append(bids,
                      [auctionId |-> reqs[r].auctionId, nftId |-> reqs[r].nftId,
                       bidderId |-> reqs[r].user, amount |-> reqs[r].amount])
               /\ Proceed(r, [Respond(reqs[r], "ok") EXCEPT !.rowId = Len(bids) + 1])
    /\ UNCHANGED <<now, access, nfts, transactions, auctions, stockPurchases,
                   withdrawalRequests>>

\* db.bid.create, which breaks bids_auctionId_fkey on an auction removed
\* meanwhile (Fail).
BidCommit(r) ==
    /\ AtPc(r, "bid", "commit")
    /\ AuctionExists(reqs[r].auctionId)
    /\ bids' = Append(bids,
           [auctionId |-> reqs[r].auctionId, nftId |-> reqs[r].nftId,
            bidderId |-> reqs[r].user, amount |-> reqs[r].amount])
    /\ Proceed(r, [Respond(reqs[r], "ok") EXCEPT !.rowId = Len(bids) + 1])
    /\ UNCHANGED <<now, access, nfts, transactions, auctions, stockPurchases,
                   withdrawalRequests>>

---------------------------------------------------------------------------
(* GET /api/users/[id]: the profile with stats.walletBalance.              *)

GetProfile(r, id) ==
    /\ Free(r)
    /\ LET req == [IdleReq EXCEPT !.kind = "profile", !.user = id]
       IN
       Proceed(r,
           IF id \notin Users THEN
               Respond(req, "NotFound")
           ELSE
               Respond([req EXCEPT !.walletBalance = walletBalance(id)], "ok"))
    /\ UNCHANGED <<now, access, tables>>

---------------------------------------------------------------------------
(* POST /api/stocks/purchases                                              *)

\* stockPurchaseCreateSchema: amountUSD positive; then db.stockPurchase.create.
\* A new row starts to accrue at its creation (lastProfitClaimAt = now).
StockPurchaseBegin(r, u, amountUSD) ==
    /\ Free(r)
    /\ LET req == [IdleReq EXCEPT !.kind = "stock", !.user = u, !.amount = amountUSD]
       IN
       IF amountUSD <= 0 THEN
           Proceed(r, Respond(req, "ValidationFailed")) /\ UNCHANGED stockPurchases
       ELSE
           /\ stockPurchases' = Append(stockPurchases,
                  [userId |-> u, amountUSD |-> amountUSD, lastProfitClaimAt |-> now])
           /\ Proceed(r, [req EXCEPT !.pc = "debit", !.rowId = Len(stockPurchases) + 1])
    /\ UNCHANGED <<now, access, nfts, transactions, auctions, bids, withdrawalRequests>>

\* db.transaction.create({ type: 'WITHDRAWAL', amount: amountUSD })
StockPurchaseDebit(r) ==
    /\ AtPc(r, "stock", "debit")
    /\ transactions' = Append(transactions,
           [type |-> "WITHDRAWAL", userId |-> reqs[r].user, amount |-> reqs[r].amount,
            nftId |-> Null, transactionHash |-> "uuid"])
    /\ Proceed(r, Respond(reqs[r], "ok"))
    /\ UNCHANGED <<now, access, nfts, auctions, bids, stockPurchases, withdrawalRequests>>

\* catch (err) { console.error(...) }: the purchase stays, without its debit.
StockPurchaseDebitFail(r) ==
    /\ AtPc(r, "stock", "debit")
    /\ Proceed(r, Respond(reqs[r], "ok"))
    /\ UNCHANGED <<now, access, tables>>

---------------------------------------------------------------------------
(* POST /api/stocks/purchases/claim                                        *)

\* The purchases of user u.
PurchasesOf(u) == {p \in Idx(stockPurchases) : stockPurchases[p].userId = u}

\* hours = Math.max(0, (now - last) / 3600000), in 1/Hour of an hour.
HoursSince(last) == IF now > last THEN now - last ELSE 0

\* One thousandth, in the unit of a profit: amountUSD (thousandths) * 0.10 *
\* hours (1/Hour) is a whole number of 1/(10 * Hour) of a thousandth.
Thousandth == 10 * Hour

\* profit = amountUSD * 0.10 * hours, in 1/Thousandth of a thousandth.
Profit(p) == stockPurchases[p].amountUSD * HoursSince(stockPurchases[p].lastProfitClaimAt)

RECURSIVE SumProfit(_)
\* totalProfit += profit, over the purchases with profit > 0.
SumProfit(S) ==
    IF S = {} THEN 0
    ELSE LET p == CHOOSE x \in S : TRUE
         IN Profit(p) + SumProfit(S \ {p})

\* Number(totalProfit.toFixed(2)): to the nearest hundredth, in thousandths.
Rounded(totalProfit) == ((totalProfit + 5 * Thousandth) \div (10 * Thousandth)) * 10

\* findMany, the accrual loop and the totalProfit <= 0 return.
ClaimBegin(r, u) ==
    /\ Free(r)
    /\ LET req == [IdleReq EXCEPT !.kind = "claim", !.user = u]
           updates == {p \in PurchasesOf(u) : Profit(p) > 0}
           totalProfit == SumProfit(updates)
       IN
       Proceed(r,
           IF totalProfit <= 0 THEN
               Respond(req, "NoProfit")
           ELSE
               [req EXCEPT !.pc = "commit", !.amount = Rounded(totalProfit),
                           !.claimedUSD = totalProfit,
                           !.updates = updates, !.startTime = now])
    /\ UNCHANGED <<now, access, tables>>

\* A unit that writes the DEPOSIT row and leaves the purchases as they are.
ClaimCommit_KeepsClaimTimes(r) ==
    /\ AtPc(r, "claim", "commit")
    /\ transactions' = Append(transactions,
           [type |-> "DEPOSIT", userId |-> reqs[r].user, amount |-> reqs[r].amount,
            nftId |-> Null, transactionHash |-> "uuid"])
    /\ Proceed(r, [Respond(reqs[r], "ok") EXCEPT !.rowId = Len(transactions) + 1])
    /\ UNCHANGED <<now, access, nfts, auctions, bids, stockPurchases, withdrawalRequests>>

\* db.$transaction: the DEPOSIT row and lastProfitClaimAt = now of the
\* purchases that contributed (a failure of the unit is Fail: neither).
ClaimCommit(r) ==
    /\ AtPc(r, "claim", "commit")
    /\ transactions' = Append(transactions,
           [type |-> "DEPOSIT", userId |-> reqs[r].user, amount |-> reqs[r].amount,
            nftId |-> Null, transactionHash |-> "uuid"])
    /\ stockPurchases' = [p \in Idx(stockPurchases) |->
           IF p \in reqs[r].updates
           THEN [stockPurchases[p] EXCEPT !.lastProfitClaimAt = reqs[r].startTime]
           ELSE stockPurchases[p]]
    /\ Proceed(r, [Respond(reqs[r], "ok") EXCEPT !.rowId = Len(transactions) + 1])
    /\ UNCHANGED <<now, access, nfts, auctions, bids, withdrawalRequests>>

---------------------------------------------------------------------------
(* Withdrawal requests: POST /api/user/withdrawal/request and the admin's  *)
(* PUT on a request.                                                       *)

\* amt <= 0 is refused; withdrawalRequest.create with status PENDING.
WithdrawalRequestCreate(r, u, amount) ==
    /\ Free(r)
    /\ LET req == [IdleReq EXCEPT !.kind = "withdrawalRequest", !.user = u,
                                  !.amount = amount]
       IN
       IF amount <= 0 THEN
           Proceed(r, Respond(req, "Invalid")) /\ UNCHANGED withdrawalRequests
       ELSE
           /\ withdrawalRequests' = Append(withdrawalRequests,
                  [userId |-> u, amount |-> amount, status |-> "PENDING"])
           /\ Proceed(r, [Respond(req, "ok") EXCEPT !.rowId = Len(withdrawalRequests) + 1,
                                                   !.status = "PENDING"])
    /\ UNCHANGED <<now, access, nfts, transactions, auctions, bids, stockPurchases>>

\* requireAdmin, the status check and withdrawalRequest.update({ where: { id } }),
\* which throws on a missing row; an approval goes on to record its transaction.
WithdrawalUpdate(r, u, id, status) ==
    /\ Free(r)
    /\ LET req == [IdleReq EXCEPT !.kind = "withdrawalUpdate", !.user = u,
                                  !.rowId = id, !.status = status]
       IN
       IF ~isAdmin(u) THEN
           Proceed(r, Respond(req, "Forbidden")) /\ UNCHANGED withdrawalRequests
       ELSE IF status \notin {"APPROVED", "DENIED"} THEN
           Proceed(r, Respond(req, "InvalidStatus")) /\ UNCHANGED withdrawalRequests
       ELSE IF id \notin Idx(withdrawalRequests) THEN
           Proceed(r, Respond(req, "InternalError")) /\ UNCHANGED withdrawalRequests
       ELSE
           /\ withdrawalRequests' = [withdrawalRequests EXCEPT ![id].status = status]
           /\ Proceed(r,
                  IF status = "APPROVED"
                  THEN [req EXCEPT !.pc = "record",
                                   !.amount = withdrawalRequests[id].amount]
                  ELSE Respond(req, "ok"))
    /\ UNCHANGED <<now, access, nfts, transactions, auctions, bids, stockPurchases>>

\* db.transaction.create({ userId: updated.userId, amount: updated.amount,
\* type: 'WITHDRAWAL' })
WithdrawalRecord(r) ==
    /\ AtPc(r, "withdrawalUpdate", "record")
    /\ transactions' = Append(transactions,
           [type |-> "WITHDRAWAL", userId |-> withdrawalRequests[reqs[r].rowId].userId,
            amount |-> reqs[r].amount, nftId |-> Null, transactionHash |-> "uuid"])
    /\ Proceed(r, Respond(reqs[r], "ok"))
    /\ UNCHANGED <<now, access, nfts, auctions, bids, stockPurchases, withdrawalRequests>>

\* catch (e) { console.error(...) }: the approval stays, without its transaction.
WithdrawalRecordFail(r) ==
    /\ AtPc(r, "withdrawalUpdate", "record")
    /\ Proceed(r, Respond(reqs[r], "ok"))
    /\ UNCHANGED <<now, access, tables>>

---------------------------------------------------------------------------
(* DELETE /api/nfts/[id]                                                   *)

\* _count.transactions of the NFT.
TransactionsOfNFT(nftId) == {i \in Idx(transactions) : transactions[i].nftId = nftId}

\* _count.auctions of the NFT.
AuctionsOfNFT(nftId) == {a \in Idx(auctions) : auctions[a].nftId = nftId}

\* findUnique with the counts, validateNFTOwnership and the two history checks.
DeleteBegin(r, u, nftId) ==
    /\ Free(r)
    /\ LET req == [IdleReq EXCEPT !.kind = "delete", !.user = u, !.nftId = nftId]
       IN
       Proceed(r,
           IF ~NFTExists(nftId) THEN
               Respond(req, "NotFound")
           ELSE IF ~validateNFTOwnership(u, nftId, isAdmin(u)) THEN
               Respond(req, "Forbidden")
           ELSE IF TransactionsOfNFT(nftId) # {} THEN
               Respond(req, "HasTransactions")
           ELSE IF AuctionsOfNFT(nftId) # {} THEN
               Respond(req, "HasAuctions")
           ELSE
               [req EXCEPT !.pc = "commit"])
    /\ UNCHANGED <<now, access, tables>>

\* db.nFT.delete({ where: { id } }), which throws on a row removed meanwhile
\* (Fail).  The store removes with the NFT the rows that reference it:
\* transactions_nftId_fkey, auctions_nftId_fkey and bids_auctionId_fkey are
\* ON DELETE CASCADE.
DeleteCommit(r) ==
    /\ AtPc(r, "delete", "commit")
    /\ NFTExists(reqs[r].nftId)
    /\ nfts' = [nfts EXCEPT ![reqs[r].nftId] = DeletedNFT]
    /\ transactions' = SelectSeq(transactions,
           LAMBDA t : t.nftId # reqs[r].nftId)
    /\ auctions' = [a \in Idx(auctions) |->
           IF auctions[a].nftId = reqs[r].nftId THEN DeletedAuction ELSE auctions[a]]
    /\ bids' = SelectSeq(bids, LAMBDA b : b.nftId # reqs[r].nftId)
    /\ Proceed(r, Respond(reqs[r], "ok"))
    /\ UNCHANGED <<now, access, stockPurchases, withdrawalRequests>>

---------------------------------------------------------------------------
(* PUT /api/user/withdrawal/request/[id]: the user-facing endpoint.        *)

\* requireAuth, the status check, findFirst({ where: { id, userId } }) and
\* withdrawalRequest.update; no Transaction row is written.
UserWithdrawalUpdate(r, u, id, status) ==
    /\ Free(r)
    /\ LET req == [IdleReq EXCEPT !.kind = "userWithdrawalUpdate", !.user = u,
                                  !.rowId = id, !.status = status]
       IN
       IF status \notin {"APPROVED", "DENIED"} THEN
           Proceed(r, Respond(req, "InvalidStatus")) /\ UNCHANGED withdrawalRequests
       ELSE IF id \notin Idx(withdrawalRequests) \/ withdrawalRequests[id].userId # u THEN
           Proceed(r, Respond(req, "NotFound")) /\ UNCHANGED withdrawalRequests
       ELSE
           /\ withdrawalRequests' = [withdrawalRequests EXCEPT ![id].status = status]
           /\ Proceed(r, Respond(req, "ok"))
    /\ UNCHANGED <<now, access, nfts, transactions, auctions, bids, stockPurchases>>

---------------------------------------------------------------------------
(* lib/auth rateLimit: the fixed-window counter in the process memory.     *)

\* for (const [key, value] of rateLimitMap.entries())
\*     if (value.resetTime < now) rateLimitMap.delete(key)
CleanedUp ==
    [k \in {j \in DOMAIN rateLimitMap : ~(rateLimitMap[j].resetTime < now)}
        |-> rateLimitMap[k]]

\* A limiter that counts the calls it refuses as well.
rateLimit_CountsRefused(identifier, maxRequests, windowMs) ==
    LET map == CleanedUp
        opened == [count |-> 1, resetTime |-> now + windowMs]
    IN  IF identifier \notin DOMAIN map THEN
            [map |-> [k \in DOMAIN map \cup {identifier} |->
                         IF k = identifier THEN opened ELSE map[k]],
             success |-> TRUE, count |-> 1]
        ELSE
            [map |-> [map EXCEPT ![identifier].count = @ + 1],
             success |-> map[identifier].count < maxRequests,
             count |-> map[identifier].count + 1]

\* rateLimit(identifier, maxRequests, windowMs): the map after the call and
\* the `success` and `count` of the object it returns.
rateLimit(identifier, maxRequests, windowMs) ==
    LET map == CleanedUp
        opened == [count |-> 1, resetTime |-> now + windowMs]
    IN  IF identifier \notin DOMAIN map THEN
            [map |-> [k \in DOMAIN map \cup {identifier} |->
                         IF k = identifier THEN opened ELSE map[k]],
             success |-> TRUE, count |-> 1]
        ELSE IF map[identifier].resetTime < now THEN
            [map |-> [map EXCEPT ![identifier] = opened],
             success |-> TRUE, count |-> 1]
        ELSE IF map[identifier].count >= maxRequests THEN
            [map |-> map, success |-> FALSE, count |-> map[identifier].count]
        ELSE
            [map |-> [map EXCEPT ![identifier].count = @ + 1],
             success |-> TRUE, count |-> map[identifier].count + 1]

\* if (!rateLimit(...)): the negation of the object that rateLimit returns.
\* An object is truthy in JavaScript, whatever its `success` field holds.
Truthy(object) == TRUE

---------------------------------------------------------------------------
(* lib/currencies and the preferredCurrency of userRegistrationSchema.     *)

\* String.prototype.toUpperCase on one character: the sharp s becomes two.
UpperOf(c) ==
    CASE c = "e" -> <<"E">>
      [] c = "u" -> <<"U">>
      [] c = "r" -> <<"R">>
      [] c = "s" -> <<"S">>
      [] c = "d" -> <<"D">>
      [] c = "ß" -> <<"S", "S">>
      [] OTHER -> <<c>>

RECURSIVE toUpperCase(_)
toUpperCase(v) == IF v = <<>> THEN <<>> ELSE UpperOf(Head(v)) \o toUpperCase(Tail(v))

\* new Set(CURRENCIES.map(c => c.code.toUpperCase())): the codes of the list
\* that the characters of the model can spell.
CURRENCY_CODE_SET == {USD, EUR, RSD}

\* if (!code) return false; return CURRENCY_CODE_SET.has(code.toUpperCase())
isValidCurrency(code) ==
    IF code = <<>> THEN FALSE ELSE toUpperCase(code) \in CURRENCY_CODE_SET

\* A schema that upper-cases nothing.
preferredCurrencySchema_NoTransform(body) ==
    IF ~body.provided THEN [success |-> TRUE, data |-> USD]
    ELSE IF Len(body.preferredCurrency) # 3 THEN [success |-> FALSE, data |-> <<>>]
    ELSE IF body.preferredCurrency \notin CURRENCY_CODE_SET
         THEN [success |-> FALSE, data |-> <<>>]
         ELSE [success |-> TRUE, data |-> body.preferredCurrency]

\* z.string().length(3).transform(v => v.toUpperCase())
\*  .refine(v => isValidCurrency(v)).optional().default('USD')
preferredCurrencySchema(body) ==
    IF ~body.provided THEN [success |-> TRUE, data |-> USD]
    ELSE IF Len(body.preferredCurrency) # 3 THEN [success |-> FALSE, data |-> <<>>]
    ELSE LET v == toUpperCase(body.preferredCurrency)
         IN  IF ~isValidCurrency(v) THEN [success |-> FALSE, data |-> <<>>]
             ELSE [success |-> TRUE, data |-> v]

---------------------------------------------------------------------------
(* POST /api/auth/register and POST /api/auth/login.                       *)

\* 15 * 60 * 1000 ms, in the seconds of this clock.
AUTH_WINDOW == 900
\* rateLimit(`login:${clientIP}`, 10, ...)
LOGIN_MAX == 10
\* rateLimit(`register:${clientIP}`, 5, ...)
REGISTER_MAX == 5

\* The rate limiter's call, safeParse and the existing-user query.
RegisterBegin(r, ip, email, body) ==
    /\ Free(r)
    /\ LET req == [IdleReq EXCEPT !.kind = "register", !.ip = ip, !.email = email,
                                  !.body = body]
           rl == rateLimit(<<"register", ip>>, REGISTER_MAX, AUTH_WINDOW)
           validation == preferredCurrencySchema(body)
       IN
       /\ rateLimitMap' = rl.map
       /\ Proceed(r,
              IF ~Truthy(rl) THEN
                  Respond(req, "TooManyRequests")
              ELSE IF ~validation.success THEN
                  Respond(req, "ValidationFailed")
              ELSE IF email \in DOMAIN accounts THEN
                  Respond([req EXCEPT !.preferredCurrency = validation.data], "Conflict")
              ELSE
                  [req EXCEPT !.pc = "commit", !.preferredCurrency = validation.data])
    /\ UNCHANGED <<now, tables, accounts, emailVerificationAttempts>>

\* db.user.create, which breaks the unique index on a row created meanwhile
\* (Fail).
RegisterCommit(r) ==
    /\ AtPc(r, "register", "commit")
    /\ reqs[r].email \notin DOMAIN accounts
    /\ LET preferredCurrency ==
               IF reqs[r].preferredCurrency # <<>>
                  /\ isValidCurrency(reqs[r].preferredCurrency)
               THEN reqs[r].preferredCurrency ELSE USD
       IN  accounts' = [k \in DOMAIN accounts \cup {reqs[r].email} |->
                           IF k = reqs[r].email THEN NewAccount(preferredCurrency)
                           ELSE accounts[k]]
    /\ Proceed(r, Respond(reqs[r], "ok"))
    /\ UNCHANGED <<now, tables, rateLimitMap, emailVerificationAttempts>>

\* The rate limiter's call, the user query and verifyPassword; every account
\* has the password "secret".
Login(r, ip, emailOrUsername, password) ==
    /\ Free(r)
    /\ LET req == [IdleReq EXCEPT !.kind = "login", !.ip = ip, !.email = emailOrUsername]
           rl == rateLimit(<<"login", ip>>, LOGIN_MAX, AUTH_WINDOW)
       IN
       /\ rateLimitMap' = rl.map
       /\ Proceed(r,
              IF ~Truthy(rl) THEN
                  Respond(req, "TooManyRequests")
              ELSE IF emailOrUsername \notin DOMAIN accounts THEN
                  Respond(req, "InvalidCredentials")
              ELSE IF password # "secret" THEN
                  Respond(req, "InvalidCredentials")
              ELSE
                  Respond(req, "ok"))
    /\ UNCHANGED <<now, tables, accounts, emailVerificationAttempts>>

---------------------------------------------------------------------------
(* The clock.                                                              *)

\* An hour passes.
Tick ==
    /\ now \div Hour < MaxTime
    /\ now' = now + Hour
    /\ response' = IdleReq
    /\ UNCHANGED <<tables, access, reqs>>

\* A moment passes: the time between two requests that follow each other.
Moment ==
    /\ now % Hour < MaxMoment
    /\ now' = now + 1
    /\ response' = IdleReq
    /\ UNCHANGED <<tables, access, reqs>>

---------------------------------------------------------------------------
(* The environment: any principal calls the endpoints with inputs from     *)
(* small sets; handlers interleave between their statements.               *)

PriceInputs == {Null, 500}
UpdateInputs == {<<Null, "true">>, <<Null, "false">>, <<500, "unset">>}
DepositInputs == {150}
StartingPriceInputs == {1000}
DurationInputs == {1, 2}
BidInputs == {995, 1000, 1010}

\* The tables stay within the bounds of the model.
Bounded ==
    /\ Len(nfts') <= MaxNFT
    /\ Len(transactions') <= MaxTx
    /\ Len(auctions') <= MaxAuction
    /\ Len(bids') <= MaxBid
    /\ Len(stockPurchases') <= MaxStock
    /\ Len(withdrawalRequests') <= MaxWithdrawal

Deposit(r) ==
    \E u \in {"admin", "bob"}, amount \in DepositInputs, hash \in {"h1"} :
        CreateTransaction(r, u, "DEPOSIT", Null, "alice", amount, hash)

Mint(r) ==
    \/ \E u \in {"alice", "bob"}, price \in PriceInputs, coll \in CollectionInputs :
           MintBegin(r, u, price, coll)
    \/ MintCommit(r)

Purchase(r) ==
    \/ \E u \in {"alice", "bob"}, nftId \in 1..MaxNFT : PurchaseBegin(r, u, nftId)
    \/ PurchaseAuctionCheck(r)
    \/ PurchaseCommit(r)

Update(r) ==
    \/ \E u \in Users, nftId \in 1..MaxNFT, body \in UpdateInputs :
           UpdateBegin(r, u, nftId, body[1], body[2])
    \/ UpdateCommit(r)

CreateAuction(r) ==
    \/ \E u \in {"alice", "bob"}, nftId \in 1..MaxNFT,
          startingPrice \in StartingPriceInputs :
           AuctionBegin(r, u, nftId, startingPrice)
    \/ \E duration \in DurationInputs : AuctionExistingCheck(r, duration)
    \/ AuctionCommit(r)

PlaceBid(r) ==
    \/ \E u \in Users, auctionId \in 1..MaxAuction, amount \in BidInputs :
           BidBegin(r, u, auctionId, amount)
    \/ BidCommit(r)

NextNFT ==
    /\ \/ \E r \in Slots : Deposit(r)
       \/ \E r \in Slots : Mint(r)
       \/ \E r \in Slots : Purchase(r)
       \/ \E r \in Slots : Update(r)
       \/ \E r \in Slots : Fail(r)
    /\ Bounded

SpecNFT == Init /\ [][NextNFT]_vars

---------------------------------------------------------------------------
(* Properties of the NFT desk (SpecNFT).                                   *)

\* The SALE rows that purchases wrote for NFT n.
PurchaseSales(n) ==
    {i \in Idx(transactions) :
        /\ transactions[i].type = "SALE"
        /\ transactions[i].transactionHash = "tx"
        /\ transactions[i].nftId = n}

\* The rows of type MINT.
MintRows == {i \in Idx(transactions) : transactions[i].type = "MINT"}

\* C2: every NFT with isSold = true has isListed = false, whatever mints,
\* purchases and updates (PUT by the owner, the creator or an admin) ran.
C2_SoldIsNotListed ==
    \A n \in Idx(nfts) : nfts[n].isSold => ~nfts[n].isListed

\* C4: an NFT is sold at most once: no state has two SALE rows written by
\* purchases for one NFT, however the purchase requests interleave.
C4_SoldAtMostOnce ==
    \A n \in Idx(nfts) : Cardinality(PurchaseSales(n)) <= 1

\* C5: a purchase applies both of its effects or none.  Ownership is changed
\* exactly for the NFTs that have a purchase SALE row, and the owner is the
\* buyer of the latest one; the step that writes a SALE row (NFT, buyer,
\* amount = the price the request read) is the step that sets ownerId = buyer,
\* isSold = true, isListed = false; a purchase that fails in its write unit
\* leaves every table as it was.
C5_PurchaseIsAtomic ==
    /\ [](\A n \in Idx(nfts) :
            /\ nfts[n].isSold <=> PurchaseSales(n) # {}
            /\ PurchaseSales(n) = {} => nfts[n].ownerId = nfts[n].creatorId
            /\ PurchaseSales(n) # {} =>
                   \E i \in PurchaseSales(n) :
                       /\ \A j \in PurchaseSales(n) : j <= i
                       /\ nfts[n].ownerId = transactions[i].userId)
    /\ [][/\ \A r \in Slots :
               (AtPc(r, "purchase", "commit") /\ reqs'[r] # reqs[r]) =>
                   \/ /\ response'.result = "InternalError"
                      /\ UNCHANGED tables
                   \/ /\ response'.result = "ok"
                      /\ transactions' = Append(transactions,
                             [type |-> "SALE", userId |-> reqs[r].user,
                              amount |-> reqs[r].price, nftId |-> reqs[r].nftId,
                              transactionHash |-> "tx"])
                      /\ reqs[r].price > 0
                      /\ nfts'[reqs[r].nftId].ownerId = reqs[r].user
                      /\ nfts'[reqs[r].nftId].isSold
                      /\ ~nfts'[reqs[r].nftId].isListed
          /\ \A n \in Idx(nfts) :
               (nfts'[n].ownerId # nfts[n].ownerId \/ nfts'[n].isSold # nfts[n].isSold) =>
                   /\ Len(transactions') = Len(transactions) + 1
                   /\ Len(transactions') \in PurchaseSales(n)'
                   /\ nfts'[n].ownerId = transactions'[Len(transactions')].userId
       ]_vars

\* A purchase has succeeded: the NFT is sold and its SALE row is there.
C5_Witness ==
    /\ response.kind = "purchase"
    /\ response.result = "ok"
    /\ nfts[response.nftId].isSold
    /\ response.rowId \in PurchaseSales(response.nftId)

\* C6: a mint request made while the balance computed for the requester is
\* below the mint fee ends at once with the insufficient-balance error (or
\* with the error of the collection check, which comes before it), leaves
\* every table as it was, so the balance too, and never reaches the write unit.
C6_MintBelowFeeFails ==
    [][\A u \in Users :
         (/\ availableBalance(u) < MINT_FEE
          /\ \E r \in Slots :
                /\ Free(r)
                /\ \/ reqs'[r].kind = "mint" /\ reqs'[r].user = u
                   \/ reqs' = reqs /\ response'.kind = "mint" /\ response'.user = u)
         => /\ reqs' = reqs
            /\ response'.kind = "mint"
            /\ response'.result \in {"InsufficientBalance", "NotFound", "Forbidden"}
            /\ response'.collectionId = "none" => response'.result = "InsufficientBalance"
            /\ UNCHANGED tables
            /\ availableBalance(u)' = availableBalance(u)
      ]_vars

\* A mint was refused for its balance after an earlier mint had succeeded.
C6_Witness ==
    /\ response.kind = "mint"
    /\ response.result = "InsufficientBalance"
    /\ response.availableBalance < MINT_FEE
    /\ response.availableBalance > 0
    /\ Len(nfts) >= 1

\* C7: a mint that succeeds adds, in one step, exactly one NFT (creatorId =
\* ownerId = requester, listed, not sold) and exactly one MINT row of the mint
\* fee for the requester, and the requester's balance drops by exactly the fee;
\* a mint whose write unit fails adds neither; NFT rows and MINT rows are never
\* added in any other way, so there are as many of the one as of the other.
C7_MintIsAtomic ==
    /\ [](Len(nfts) = Cardinality(MintRows))
    /\ [][/\ \A r \in Slots :
               (AtPc(r, "mint", "commit") /\ reqs'[r] # reqs[r]) =>
                   \/ /\ response'.result = "InternalError"
                      /\ UNCHANGED tables
                   \/ /\ response'.result = "ok"
                      /\ nfts' = Append(nfts,
                             [creatorId |-> reqs[r].user, ownerId |-> reqs[r].user,
                              isListed |-> TRUE, isSold |-> FALSE,
                              price |-> reqs[r].price])
                      /\ Len(transactions') = Len(transactions) + 1
                      /\ SubSeq(transactions', 1, Len(transactions)) = transactions
                      /\ transactions'[Len(transactions')].type = "MINT"
                      /\ transactions'[Len(transactions')].userId = reqs[r].user
                      /\ transactions'[Len(transactions')].amount = MINT_FEE
                      /\ \A u \in Users :
                             /\ availableBalance(u)' = availableBalance(u) -
                                    (IF u = reqs[r].user THEN MINT_FEE ELSE 0)
                             /\ walletBalance(u)' = walletBalance(u) -
                                    (IF u = reqs[r].user THEN MINT_FEE ELSE 0)
          /\ (Len(nfts') # Len(nfts) \/ Cardinality(MintRows') # Cardinality(MintRows)) =>
               response'.kind = "mint" /\ response'.result = "ok"
       ]_vars

\* A mint has succeeded: its NFT and its MINT row are the newest rows.
C7_Witness ==
    /\ response.kind = "mint"
    /\ response.result = "ok"
    /\ response.nftId = Len(nfts)
    /\ response.rowId = Len(transactions)
    /\ transactions[response.rowId].type = "MINT"
    /\ nfts[response.nftId].ownerId = response.user

---------------------------------------------------------------------------
(* The auction house: auctions opened on an NFT that alice has minted      *)
(* (after the deposit that paid for it), and the clock.                    *)

InitAuction ==
    /\ now = 0
    /\ nfts = <<NewNFT("alice", 500)>>
    /\ transactions = <<[type |-> "DEPOSIT", userId |-> "alice", amount |-> 250,
                         nftId |-> Null, transactionHash |-> "h1"],
                        MintTransaction("alice")>>
    /\ auctions = <<>>
    /\ bids = <<>>
    /\ stockPurchases = <<>>
    /\ withdrawalRequests = <<>>
    /\ accounts = InitialAccounts
    /\ rateLimitMap = <<>>
    /\ emailVerificationAttempts = <<>>
    /\ reqs = [r \in Slots |-> IdleReq]
    /\ response = IdleReq

NextAuction ==
    /\ \/ \E r \in Slots : CreateAuction(r)
       \/ \E r \in Slots : Fail(r)
       \/ Tick
    /\ Bounded

SpecAuction == InitAuction /\ [][NextAuction]_vars

---------------------------------------------------------------------------
(* Properties of the auction house (SpecAuction).                          *)

\* C3: for each NFT at most one auction row has isActive = true and
\* endTime > now, however the createAuction requests for it interleave.
C3_OneActiveAuction ==
    \A n \in Idx(nfts) : Cardinality(ActiveAuctions(n)) <= 1

---------------------------------------------------------------------------
(* The bidding floor: alice's NFT with the auction she opened on it at     *)
(* time 0, bids from every principal, and the clock.                       *)

InitBid ==
    /\ now = 0
    /\ nfts = <<NewNFT("alice", 500)>>
    /\ transactions = <<[type |-> "DEPOSIT", userId |-> "alice", amount |-> 250,
                         nftId |-> Null, transactionHash |-> "h1"],
                        MintTransaction("alice")>>
    /\ auctions = <<NewAuction("alice", 1, 1000, 0, MaxTime * Hour)>>
    /\ bids = <<>>
    /\ stockPurchases = <<>>
    /\ withdrawalRequests = <<>>
    /\ accounts = InitialAccounts
    /\ rateLimitMap = <<>>
    /\ emailVerificationAttempts = <<>>
    /\ reqs = [r \in Slots |-> IdleReq]
    /\ response = IdleReq

NextBid ==
    /\ \/ \E r \in Slots : PlaceBid(r)
       \/ \E r \in Slots : Fail(r)
       \/ Tick
    /\ Bounded

SpecBid == InitBid /\ [][NextBid]_vars

---------------------------------------------------------------------------
(* Properties of the bidding floor (SpecBid).                              *)

\* The greatest amount bid on auction a so far.
HighestAmount(a) ==
    CHOOSE x \in {bids[b].amount : b \in BidsOf(a)} :
        \A b \in BidsOf(a) : bids[b].amount <= x

\* The minimum of section 4.3: the highest bid plus the increment when the
\* auction has a bid, its startPrice otherwise.
MinimumOf(a) ==
    IF BidsOf(a) = {} THEN auctions[a].startPrice
    ELSE HighestAmount(a) + BID_INCREMENT

\* This step reads the auction for a bid request: the request as it leaves
\* the step, refused (the response) or on its way to the insert.
BidRead(r) ==
    /\ Free(r)
    /\ \/ reqs'[r].kind = "bid"
       \/ reqs' = reqs /\ response'.kind = "bid"

BidRequest(r) == IF reqs' = reqs THEN response' ELSE reqs'[r]

\* C9: a bid whose amount is below minimumBid (highest bid + 0.01, or the
\* startPrice when there is no bid) is refused when the handler reads the
\* auction and never reaches the insert, so no Bid row is created; the refusal
\* is BidTooLow, with the minimum in the response, unless an earlier check of
\* the handler refused; an amount equal to minimumBid is not refused as too low.
C9_BidBelowMinimumFails ==
    [][\A r \in Slots :
         (BidRead(r) /\ BidRequest(r).auctionId \in Idx(auctions)) =>
             LET q == BidRequest(r)
                 minimum == MinimumOf(q.auctionId)
             IN /\ q.amount < minimum =>
                       /\ reqs' = reqs
                       /\ bids' = bids
                       /\ q.result \in {"BidTooLow", "Inactive", "Expired", "SelfBid"}
                       /\ q.result = "BidTooLow" => q.minimumBid = minimum
                /\ q.amount >= minimum => q.result # "BidTooLow"
                /\ (/\ q.amount = minimum
                    /\ auctions[q.auctionId].endTime > now
                    /\ q.user # nfts[auctions[q.auctionId].nftId].ownerId
                    /\ \A b \in BidsOf(q.auctionId) : bids[b].bidderId # q.user)
                   => q.pc = "commit"
      ]_vars

\* A bid of 1000 was refused as too low against a minimum of 1010, after a
\* bid equal to the startPrice had been accepted.
C9_Witness ==
    /\ response.kind = "bid"
    /\ response.result = "BidTooLow"
    /\ response.amount = auctions[response.auctionId].startPrice
    /\ response.minimumBid = response.amount + BID_INCREMENT
    /\ \E b \in BidsOf(response.auctionId) :
           bids[b].amount = auctions[response.auctionId].startPrice

\* C10: a Bid row is created only by a request that had read the auction, and
\* a request goes on to the insert only if, at that read, the auction has
\* isActive = true and endTime > now, the bidder is not the owner of the NFT
\* and not the bidder of the highest bid; no operation clears isActive, and a
\* request that reads the auction at or after endTime is refused.
C10_BidAcceptedOnlyIf ==
    /\ [](\A a \in Idx(auctions) : auctions[a].isActive)
    /\ [][/\ \A r \in Slots :
               (BidRead(r) /\ reqs'[r].kind = "bid") =>
                   LET a == reqs'[r].auctionId
                       u == reqs'[r].user
                   IN /\ a \in Idx(auctions)
                      /\ auctions[a].isActive
                      /\ auctions[a].endTime > now
                      /\ nfts[auctions[a].nftId].ownerId # u
                      /\ \/ BidsOf(a) = {}
                         \/ \E b \in HighestBids(a) : bids[b].bidderId # u
          /\ \A r \in Slots :
               (/\ BidRead(r)
                /\ BidRequest(r).auctionId \in Idx(auctions)
                /\ auctions[BidRequest(r).auctionId].endTime <= now)
               => BidRequest(r).result \in {"Expired", "Inactive"}
          /\ bids' # bids =>
               \E r \in Slots :
                   /\ AtPc(r, "bid", "commit")
                   /\ reqs'[r] = IdleReq
                   /\ response'.result = "ok"
                   /\ bids' = Append(bids,
                          [auctionId |-> reqs[r].auctionId, nftId |-> reqs[r].nftId,
                           bidderId |-> reqs[r].user, amount |-> reqs[r].amount])
       ]_vars

\* A bid arrived after endTime on an auction that still has isActive = true
\* and was refused, after bids had been accepted before endTime.
C10_Witness ==
    /\ response.kind = "bid"
    /\ response.result = "Expired"
    /\ auctions[response.auctionId].isActive
    /\ auctions[response.auctionId].endTime <= now
    /\ BidsOf(response.auctionId) # {}

---------------------------------------------------------------------------
(* The ledger desk: every operation that writes or reads the ledger of     *)
(* alice and bob, one request at a time, and the clock.                    *)

LedgerTypeInputs == {"DEPOSIT", "TRANSFER"}
LedgerAmountInputs == {150}
StockInputs == {40}
WithdrawalInputs == {50}

Ledger(r) ==
    \/ \E u \in {"admin", "bob"}, type \in LedgerTypeInputs,
          amount \in LedgerAmountInputs, hash \in {"h1"} :
           CreateTransaction(r, u, type, Null, "alice", amount, hash)
    \/ \E id \in {"alice", "bob", "nobody"} : GetProfile(r, id)

Stock(r) ==
    \/ \E amountUSD \in StockInputs : StockPurchaseBegin(r, "alice", amountUSD)
    \/ StockPurchaseDebit(r)
    \/ StockPurchaseDebitFail(r)
    \/ ClaimBegin(r, "alice")
    \/ ClaimCommit(r)

Withdrawal(r) ==
    \/ \E amount \in WithdrawalInputs : WithdrawalRequestCreate(r, "alice", amount)
    \/ \E u \in {"admin", "alice"}, id \in 1..MaxWithdrawal,
          status \in {"APPROVED", "DENIED"} :
           WithdrawalUpdate(r, u, id, status)
    \/ WithdrawalRecord(r)
    \/ WithdrawalRecordFail(r)

Trade(r) ==
    \/ \E price \in {500} : MintBegin(r, "alice", price, "none")
    \/ MintCommit(r)
    \/ PurchaseBegin(r, "bob", 1)
    \/ PurchaseAuctionCheck(r)
    \/ PurchaseCommit(r)

NextLedger ==
    /\ \/ Ledger(1)
       \/ Stock(1)
       \/ Withdrawal(1)
       \/ Trade(1)
       \/ Fail(1)
       \/ Tick
    /\ Bounded

SpecLedger == Init /\ [][NextLedger]_vars

---------------------------------------------------------------------------
(* Properties of the ledger desk (SpecLedger).                             *)

\* What a row adds to the balance of its user: a DEPOSIT its amount, a
\* WITHDRAWAL and a MINT minus their amount, a SALE and a TRANSFER nothing.
Signed(row) ==
    CASE row.type = "DEPOSIT" -> row.amount
      [] row.type \in {"WITHDRAWAL", "MINT"} -> 0 - row.amount
      [] OTHER -> 0

RECURSIVE SignedSum(_, _)
\* The signed sum over the first n rows of the history of user u.
SignedSum(u, n) ==
    IF n = 0 THEN 0
    ELSE SignedSum(u, n - 1) +
         (IF transactions[n].userId = u THEN Signed(transactions[n]) ELSE 0)

\* C1: in every state, whatever ledger operations ran (admin transaction
\* creation, mint, purchase, profit claim, withdrawal approval, stock
\* purchase), the balance computed for a user, the availableBalance of the
\* mint check and the walletBalance of the profile alike, is the sum of the
\* user's DEPOSIT amounts minus their WITHDRAWAL and MINT amounts; SALE and
\* TRANSFER rows add nothing and an empty history gives 0; the balances that
\* the handlers computed and carry or report are that sum too.
C1_BalanceIsSignedSum ==
    /\ \A u \in Users :
           /\ availableBalance(u) = SignedSum(u, Len(transactions))
           /\ walletBalance(u) = SignedSum(u, Len(transactions))
           /\ (\A i \in Idx(transactions) : transactions[i].userId # u) =>
                  availableBalance(u) = 0 /\ walletBalance(u) = 0
    /\ (response.kind = "profile" /\ response.result = "ok") =>
           response.walletBalance = SignedSum(response.user, Len(transactions))
    /\ (response.kind = "mint" /\ response.result = "InsufficientBalance") =>
           response.availableBalance = SignedSum(response.user, Len(transactions))
    /\ \A r \in Slots :
           AtPc(r, "mint", "commit") =>
               reqs[r].availableBalance = SignedSum(reqs[r].user, Len(transactions))

\* alice's profile reports 0.01 after a deposit of 0.15, a mint (0.1) and a
\* stock purchase (0.04), while bob's SALE row leaves bob's balance at 0.
C1_Witness ==
    /\ response.kind = "profile"
    /\ response.user = "alice"
    /\ response.walletBalance = 10
    /\ \E i, j, k, l \in Idx(transactions) :
           /\ transactions[i].type = "DEPOSIT" /\ transactions[i].userId = "alice"
           /\ transactions[j].type = "MINT" /\ transactions[j].userId = "alice"
           /\ transactions[k].type = "WITHDRAWAL" /\ transactions[k].userId = "alice"
           /\ transactions[l].type = "SALE" /\ transactions[l].userId = "bob"
    /\ availableBalance("bob") = 0

---------------------------------------------------------------------------
(* The mint scenario of section 8: alice's deposits sum to 1.0, she has no *)
(* debit, and she mints again and again, one request after the other; the  *)
(* store does not fail.                                                    *)

\* The deposits that alice received: 1.0 in one, two or three rows.
ScenarioDeposits == {<<1000>>, <<500, 500>>, <<250, 250, 500>>}

DepositRow(amount, hash) ==
    [type |-> "DEPOSIT", userId |-> "alice", amount |-> amount, nftId |-> Null,
     transactionHash |-> hash]

InitMintScenario ==
    /\ now = 0
    /\ nfts = <<>>
    /\ \E deposits \in ScenarioDeposits :
           transactions = [i \in Idx(deposits) |->
                              DepositRow(deposits[i], <<"h1", "h2", "h3">>[i])]
    /\ auctions = <<>>
    /\ bids = <<>>
    /\ stockPurchases = <<>>
    /\ withdrawalRequests = <<>>
    /\ accounts = InitialAccounts
    /\ rateLimitMap = <<>>
    /\ emailVerificationAttempts = <<>>
    /\ reqs = [r \in Slots |-> IdleReq]
    /\ response = IdleReq

NextMintScenario ==
    /\ \/ \E price \in PriceInputs : MintBegin(1, "alice", price, "none")
       \/ MintCommit(1)
    /\ Len(nfts') <= ScenarioMints

SpecMintScenario == InitMintScenario /\ [][NextMintScenario]_vars

---------------------------------------------------------------------------
(* The bidding floor with one request at a time.                           *)

SequentialBidInputs == BidInputs \cup {1020}

PlaceBidSequential ==
    \/ \E u \in Users, auctionId \in 1..MaxAuction, amount \in SequentialBidInputs :
           BidBegin(1, u, auctionId, amount)
    \/ BidCommit(1)

NextBidSequential ==
    /\ \/ PlaceBidSequential
       \/ Fail(1)
       \/ Tick
    /\ Bounded

SpecBidSequential == InitBid /\ [][NextBidSequential]_vars

\* The Bid row of a bid by u of `amount` on auction a.
BidRow(a, u, amount) ==
    [auctionId |-> a, nftId |-> auctions[a].nftId, bidderId |-> u, amount |-> amount]

\* C11: on an active, unexpired auction with startPrice 1.0 and no bids, with
\* one request after the other: bidder A's bid of 1.0 passes the checks and
\* its row is inserted; then a bid of 1.0 (by A or by B) is refused as too low
\* with minimum 1.01, also for A, who holds the highest bid, the too-low
\* check coming first; A's bid of 1.01 is refused as already highest; B's bid
\* of 1.02 passes and is inserted: exactly the two rows exist.
C11_BidScenario ==
    [][\A A, B \in Users \ {nfts[auctions[1].nftId].ownerId} :
         (A # B /\ auctions[1].startPrice = 1000 /\ auctions[1].isActive
               /\ auctions[1].endTime > now) =>
             LET q == BidRequest(1)
                 first == BidRow(1, A, 1000)
             IN /\ (BidRead(1) /\ q.auctionId = 1) =>
                       /\ (bids = <<>> /\ q.user = A /\ q.amount = 1000) =>
                              q.pc = "commit"
                       /\ (bids = <<first>> /\ q.user \in {A, B} /\ q.amount = 1000) =>
                              /\ q.result = "BidTooLow"
                              /\ q.minimumBid = 1010
                              /\ bids' = bids
                       /\ (bids = <<first>> /\ q.user = A /\ q.amount = 1010) =>
                              /\ q.result = "AlreadyHighest"
                              /\ bids' = bids
                       /\ (bids = <<first>> /\ q.user = B /\ q.amount = 1020) =>
                              q.pc = "commit"
                /\ (AtPc(1, "bid", "commit") /\ response'.result = "ok") =>
                       /\ (bids = <<>> /\ reqs[1].user = A /\ reqs[1].amount = 1000) =>
                              bids' = <<first>>
                       /\ (bids = <<first>> /\ reqs[1].user = B /\ reqs[1].amount = 1020) =>
                              bids' = <<first, BidRow(1, B, 1020)>>
      ]_vars

\* B's bid of 1.02 was accepted after A's bid of 1.0: two rows.
C11_Witness ==
    /\ response.kind = "bid"
    /\ response.result = "ok"
    /\ response.amount = 1020
    /\ Len(bids) = 2
    /\ bids[1].amount = 1000
    /\ bids[2].amount = 1020
    /\ bids[1].bidderId # bids[2].bidderId
    /\ auctions[1].endTime > now

\* C12: with one request at a time, the amounts of the accepted bids of an
\* auction strictly increase in the order of acceptance, each at least 0.01
\* above the one before and the first at least startPrice; so no two accepted
\* bids are equal and the highest bid is the one accepted last.
C12_AmountsStrictlyIncrease ==
    \A a \in Idx(auctions) :
        /\ \A j \in BidsOf(a) : bids[j].amount >= auctions[a].startPrice
        /\ \A i, j \in BidsOf(a) :
               i < j => bids[j].amount >= bids[i].amount + BID_INCREMENT
        /\ BidsOf(a) # {} =>
               HighestBids(a) = {CHOOSE j \in BidsOf(a) : \A i \in BidsOf(a) : i <= j}

\* Three bids were accepted, one after the other: 1.0, 1.01 and 1.02.
C12_Witness ==
    /\ Len(bids) = 3
    /\ bids[1].amount = 1000
    /\ bids[2].amount = 1010
    /\ bids[3].amount = 1020
    /\ \A b \in Idx(bids) : bids[b].auctionId = 1

---------------------------------------------------------------------------
(* The race of two bids (SpecBid).                                         *)

\* C13: the read of the highest bid and the insert are separate steps.  A
\* request waits at the insert with the minimum it computed at its read, its
\* amount at least that minimum; the insert checks nothing again: it adds the
\* row whatever bids the table holds by then (or the store fails).  So two
\* requests that both read before either inserts are both accepted against
\* the same stale highest bid: rows less than 0.01 apart, or two highest bids
\* in a row by one bidder, are reachable (the witness).
C13_InsertAfterStaleRead ==
    /\ [](\A r \in Slots :
            AtPc(r, "bid", "commit") => reqs[r].amount >= reqs[r].minimumBid)
    /\ [][\A r \in Slots :
            (BidRead(r) /\ reqs'[r].kind = "bid") =>
                reqs'[r].minimumBid = MinimumOf(reqs'[r].auctionId)
       ]_vars
    /\ [][\A r \in Slots :
            (AtPc(r, "bid", "commit") /\ reqs'[r] = IdleReq) =>
                /\ response'.result \in {"ok", "InternalError"}
                /\ response'.result = "ok" =>
                       bids' = Append(bids, BidRow(reqs[r].auctionId, reqs[r].user,
                                                   reqs[r].amount))
                /\ response'.result = "InternalError" => bids' = bids
       ]_vars

\* Both requests were accepted: two rows of one auction less than 0.01
\* apart, the later one below the minimum that the earlier one set.
C13_Witness ==
    /\ \A r \in Slots : Free(r)
    /\ response.kind = "bid"
    /\ response.result = "ok"
    /\ \E i, j \in Idx(bids) :
           /\ i < j
           /\ bids[i].auctionId = bids[j].auctionId
           /\ bids[i].bidderId # bids[j].bidderId
           /\ bids[j].amount < bids[i].amount + BID_INCREMENT
           /\ bids[i].amount < bids[j].amount + BID_INCREMENT

---------------------------------------------------------------------------
(* Purchases after a purchase (SpecNFT).                                   *)

\* This step reads the NFT for a purchase request: the request as it leaves
\* the step, refused (the response) or on its way to the next statement.
PurchaseRead(r) ==
    /\ Free(r)
    /\ \/ reqs'[r].kind = "purchase"
       \/ reqs' = reqs /\ response'.kind = "purchase"

PurchaseRequest(r) == IF reqs' = reqs THEN response' ELSE reqs'[r]

---------------------------------------------------------------------------
(* The sales counter: an NFT that alice has minted without a price.  Two   *)
(* purchase requests can be in flight; edits and auction openings arrive   *)
(* one at a time, between the statements of the purchases; the clock runs. *)

InitPurchase ==
    /\ now = 0
    /\ nfts = <<NewNFT("alice", Null)>>
    /\ transactions = <<[type |-> "DEPOSIT", userId |-> "alice", amount |-> 150,
                         nftId |-> Null, transactionHash |-> "h1"],
                        MintTransaction("alice")>>
    /\ auctions = <<>>
    /\ bids = <<>>
    /\ stockPurchases = <<>>
    /\ withdrawalRequests = <<>>
    /\ accounts = InitialAccounts
    /\ rateLimitMap = <<>>
    /\ emailVerificationAttempts = <<>>
    /\ reqs = [r \in Slots |-> IdleReq]
    /\ response = IdleReq

NextPurchase ==
    /\ \/ \E r \in Slots : Purchase(r)
       \/ Update(1)
       \/ CreateAuction(1)
       \/ \E r \in Slots : Fail(r)
       \/ Tick
    /\ Bounded

SpecPurchase == InitPurchase /\ [][NextPurchase]_vars

\* The handler in slot r runs a statement in this step.
Acts(r) == reqs'[r] # reqs[r]

NoPositivePrice(nft) == nft.price = Null \/ nft.price <= 0

\* C15: a purchase request is refused, with every table unchanged, when the
\* NFT it reads is not listed or sold or owned by the buyer, and when at its
\* auction query the NFT has an active unexpired auction or no positive price;
\* a request gets past a check only when none of the conditions of that check
\* holds, only a request past both checks succeeds, and every purchase
\* response other than success leaves the tables unchanged.
C15_PurchasePreconditions ==
    /\ [][\A r \in Slots :
            (PurchaseRead(r) /\ PurchaseRequest(r).nftId \in Idx(nfts))
            => LET req == PurchaseRequest(r)
                   nft == nfts[req.nftId]
               IN  IF Unavailable(nft) \/ nft.ownerId = req.user
                   THEN /\ reqs' = reqs
                        /\ req.result \in {"Unavailable", "SelfPurchase"}
                        /\ UNCHANGED tables
                   ELSE /\ reqs'[r].pc = "auctionCheck"
                        /\ UNCHANGED tables
       ]_vars
    /\ [][\A r \in Slots :
            (AtPc(r, "purchase", "auctionCheck") /\ Acts(r))
            => IF \/ ActiveAuctions(reqs[r].nftId) # {}
                  \/ NoPositivePrice(nfts[reqs[r].nftId])
               THEN /\ reqs'[r] = IdleReq
                    /\ response'.result \in
                           {"ActiveAuction", "InvalidPrice", "InternalError"}
                    /\ UNCHANGED tables
               ELSE UNCHANGED tables
       ]_vars
    /\ [][(response'.kind = "purchase" /\ response'.result = "ok")
          => \E r \in Slots : AtPc(r, "purchase", "commit") /\ Acts(r)
       ]_vars
    /\ [][(response'.kind = "purchase" /\ response'.result # "ok")
          => UNCHANGED tables
       ]_vars

\* A purchase was refused because of the active auction on the NFT, which is
\* listed, unsold, priced and not the buyer's.
C15_Witness ==
    /\ response.kind = "purchase"
    /\ response.result = "ActiveAuction"
    /\ ActiveAuctions(response.nftId) # {}
    /\ ~Unavailable(nfts[response.nftId])
    /\ nfts[response.nftId].ownerId # response.user
    /\ ~NoPositivePrice(nfts[response.nftId])
    /\ PurchaseSales(response.nftId) = {}

---------------------------------------------------------------------------
(* The stock desk: alice and bob buy stock and claim the profit, one       *)
(* request at a time; hours and moments pass between and within requests.  *)

StockAmountInputs == {40, 1000}

StockDesk(r) ==
    \/ \E u \in {"alice", "bob"}, amountUSD \in StockAmountInputs :
           StockPurchaseBegin(r, u, amountUSD)
    \/ StockPurchaseDebit(r)
    \/ StockPurchaseDebitFail(r)
    \/ \E u \in {"alice", "bob"} : ClaimBegin(r, u)
    \/ ClaimCommit(r)

NextStock ==
    /\ \/ StockDesk(1)
       \/ Fail(1)
       \/ Tick
       \/ Moment
    /\ Bounded

SpecStock == Init /\ [][NextStock]_vars

\* The profit of the purchases S accrued up to time t, in 1/Thousandth of a
\* thousandth.
RECURSIVE AccruedAt(_, _)
AccruedAt(S, t) ==
    IF S = {} THEN 0
    ELSE LET p == CHOOSE x \in S : TRUE
             last == stockPurchases[p].lastProfitClaimAt
         IN  (IF t > last THEN stockPurchases[p].amountUSD * (t - last) ELSE 0)
             + AccruedAt(S \ {p}, t)

\* The purchases of user u that have accrued a profit at time t.
Contributors(u, t) == {p \in PurchasesOf(u) : AccruedAt({p}, t) > 0}

\* The total to the nearest hundredth, halves up, in thousandths.
NearestHundredth(total) ==
    CHOOSE c \in {10 * k : k \in 0..((total \div (10 * Thousandth)) + 1)} :
        /\ 2 * (c * Thousandth - total) <= 10 * Thousandth
        /\ 2 * (total - c * Thousandth) < 10 * Thousandth

\* This step is the claim request in slot r reading the purchases.
ClaimRead(r) ==
    /\ Free(r)
    /\ \/ reqs'[r].kind = "claim"
       \/ reqs' = reqs /\ response'.kind = "claim"

\* C16: a claim that finds a positive accrued total goes on to its atomic
\* unit; the unit appends exactly one DEPOSIT row for the user, of the total
\* at the claim time rounded to two decimals, and sets lastProfitClaimAt to
\* the claim time on exactly the user's purchases with a positive profit;
\* a store failure of the unit writes neither.
C16_ClaimCreditsOnce ==
    /\ [][\A u \in Users :
            (ClaimRead(1) /\ (IF reqs' = reqs THEN response' ELSE reqs'[1]).user = u
                          /\ AccruedAt(PurchasesOf(u), now) > 0)
            => /\ reqs'[1].pc = "commit"
               /\ reqs'[1].startTime = now
               /\ UNCHANGED tables
       ]_vars
    /\ [][(AtPc(1, "claim", "commit") /\ Acts(1))
          => LET u == reqs[1].user
                 t == reqs[1].startTime
             IN  \/ /\ response'.result = "InternalError"
                    /\ UNCHANGED tables
                 \/ /\ response'.result = "ok"
                    /\ AccruedAt(PurchasesOf(u), t) > 0
                    /\ Len(transactions') = Len(transactions) + 1
                    /\ SubSeq(transactions', 1, Len(transactions)) = transactions
                    /\ LET row == transactions'[Len(transactions')]
                       IN  /\ row.type = "DEPOSIT"
                           /\ row.userId = u
                           /\ row.amount = NearestHundredth(AccruedAt(PurchasesOf(u), t))
                    /\ Len(stockPurchases') = Len(stockPurchases)
                    /\ \A p \in Idx(stockPurchases) :
                           stockPurchases'[p] =
                               IF p \in Contributors(u, t)
                               THEN [stockPurchases[p] EXCEPT !.lastProfitClaimAt = t]
                               ELSE stockPurchases[p]
                    /\ UNCHANGED <<nfts, auctions, bids, withdrawalRequests>>
       ]_vars

\* A claim has credited a positive amount and moved the claim time of the
\* claimant's purchase, while another user's purchase kept its own.
C16_Witness ==
    /\ response.kind = "claim"
    /\ response.result = "ok"
    /\ response.rowId = Len(transactions)
    /\ transactions[response.rowId].type = "DEPOSIT"
    /\ transactions[response.rowId].amount > 0
    /\ \E p, q \in Idx(stockPurchases) :
           /\ stockPurchases[p].userId = response.user
           /\ stockPurchases[p].lastProfitClaimAt = response.startTime
           /\ response.startTime > 0
           /\ stockPurchases[q].userId # response.user
           /\ stockPurchases[q].lastProfitClaimAt # response.startTime

\* C17: every Transaction row has amount > 0.
C17_AmountsPositive ==
    \A i \in Idx(transactions) : transactions[i].amount > 0

---------------------------------------------------------------------------
(* The claim scenario: alice holds a single stock purchase of 100, bought  *)
(* at time 0 and paid by its WITHDRAWAL row; she sends claim requests,     *)
(* which may be in flight together, while hours and moments pass.          *)

ScenarioAmountUSD == 100000

InitClaim ==
    /\ now = 0
    /\ nfts = <<>>
    /\ transactions = <<[type |-> "WITHDRAWAL", userId |-> "alice",
                         amount |-> ScenarioAmountUSD, nftId |-> Null,
                         transactionHash |-> "uuid"]>>
    /\ auctions = <<>>
    /\ bids = <<>>
    /\ stockPurchases = <<[userId |-> "alice", amountUSD |-> ScenarioAmountUSD,
                           lastProfitClaimAt |-> 0]>>
    /\ withdrawalRequests = <<>>
    /\ accounts = InitialAccounts
    /\ rateLimitMap = <<>>
    /\ emailVerificationAttempts = <<>>
    /\ reqs = [r \in Slots |-> IdleReq]
    /\ response = IdleReq

Claim(r) ==
    \/ ClaimBegin(r, "alice")
    \/ ClaimCommit(r)

NextClaim ==
    /\ \/ \E r \in Slots : Claim(r)
       \/ \E r \in Slots : Fail(r)
       \/ Tick
       \/ Moment
    /\ Bounded

SpecClaim == InitClaim /\ [][NextClaim]_vars

\* The DEPOSIT rows of user u.
DepositsOf(u) ==
    {i \in Idx(transactions) :
        transactions[i].type = "DEPOSIT" /\ transactions[i].userId = u}

\* The first half of the scenario of C18: the first claim, made exactly one
\* hour after the purchase with no other request in flight, credits a
\* DEPOSIT of 10.
C18_FirstClaimCreditsTen ==
    [][(/\ AtPc(1, "claim", "commit") /\ Acts(1) /\ response'.result = "ok"
        /\ Free(2)
        /\ DepositsOf("alice") = {}
        /\ reqs[1].startTime = Hour)
       => /\ Len(transactions') = Len(transactions) + 1
          /\ transactions'[Len(transactions')].type = "DEPOSIT"
          /\ transactions'[Len(transactions')].amount = 10000
    ]_vars

\* C18: a claim sent right after a claim that was credited, at most
\* MaxMoment seconds after it and with no other request in flight, reports
\* a claimed amount of 0 and goes to no write.
C18_ImmediateReclaimIsNoOp ==
    [][(/\ ClaimRead(1)
        /\ \A r \in Slots : Free(r)
        /\ DepositsOf("alice") # {}
        /\ stockPurchases[1].lastProfitClaimAt > 0
        /\ now - stockPurchases[1].lastProfitClaimAt <= MaxMoment)
       => /\ reqs' = reqs
          /\ response'.result = "NoProfit"
          /\ response'.claimedUSD = 0
    ]_vars

\* The sum of the DEPOSIT amounts of the rows S.
RECURSIVE DepositSum(_)
DepositSum(S) ==
    IF S = {} THEN 0
    ELSE LET i == CHOOSE x \in S : TRUE
         IN  transactions[i].amount + DepositSum(S \ {i})

\* C19: the DEPOSIT rows that alice's claims have created sum to no more
\* than the profit her purchase has accrued since the purchase, up to the
\* rounding of each row (half a hundredth).
C19_AccrualCreditedOnce ==
    DepositSum(DepositsOf("alice")) * Thousandth
        <= ScenarioAmountUSD * now
           + Cardinality(DepositsOf("alice")) * 5 * Thousandth

---------------------------------------------------------------------------
(* The withdrawal office: alice files a request, the admin and the users   *)
(* set its status through their endpoints, requests in flight together.    *)

StatusInputs == {"APPROVED", "DENIED", "PENDING"}

UserWithdrawal(r) ==
    \E u \in {"alice", "bob"}, id \in 1..MaxWithdrawal, status \in StatusInputs :
        UserWithdrawalUpdate(r, u, id, status)

NextWithdrawal ==
    /\ \/ \E r \in Slots : Withdrawal(r)
       \/ \E r \in Slots : UserWithdrawal(r)
    /\ Bounded

SpecWithdrawal == Init /\ [][NextWithdrawal]_vars

\* The WITHDRAWAL rows recorded for the user and amount of request w.
WithdrawalRowsFor(w) ==
    {i \in Idx(transactions) :
        /\ transactions[i].type = "WITHDRAWAL"
        /\ transactions[i].userId = withdrawalRequests[w].userId
        /\ transactions[i].amount = withdrawalRequests[w].amount}

\* C20: when no approval is between its two statements, every request with
\* status APPROVED has a WITHDRAWAL row of its user and amount.
C20_ApprovedHasWithdrawal ==
    (\A r \in Slots : ~AtPc(r, "withdrawalUpdate", "record"))
    => \A w \in Idx(withdrawalRequests) :
           withdrawalRequests[w].status = "APPROVED" => WithdrawalRowsFor(w) # {}

---------------------------------------------------------------------------
(* The NFT's removal: alice's minted NFT, purchase and delete requests in  *)
(* flight together.                                                        *)

Delete(r) ==
    \/ \E u \in Users, nftId \in 1..MaxNFT : DeleteBegin(r, u, nftId)
    \/ DeleteCommit(r)

NextDelete ==
    /\ \/ \E r \in Slots : Purchase(r)
       \/ \E r \in Slots : Delete(r)
       \/ \E r \in Slots : Fail(r)
    /\ Bounded

SpecDelete == InitAuction /\ [][NextDelete]_vars

\* C21: every step keeps every Transaction row as it is, at its place.
C21_TransactionsAppendOnly ==
    [][/\ Len(transactions') >= Len(transactions)
       /\ SubSeq(transactions', 1, Len(transactions)) = transactions
    ]_vars

---------------------------------------------------------------------------
(* Auctions opened at the sales counter (SpecPurchase).                    *)

\* The second half of C22: an auction that is created is active, starts at
\* the requested price for the requester as seller, and ends a requested
\* number of hours after its start.
C22_AuctionFields ==
    [][\A r \in Slots :
          (AtPc(r, "auction", "commit") /\ Acts(r) /\ response'.result = "ok")
          => /\ Len(auctions') = Len(auctions) + 1
             /\ LET a == auctions'[Len(auctions')]
                IN  /\ a.isActive
                    /\ a.nftId = reqs[r].nftId
                    /\ a.startPrice = reqs[r].price
                    /\ a.currentPrice = reqs[r].price
                    /\ a.sellerId = reqs[r].user
                    /\ \E duration \in DurationInputs :
                           a.endTime = a.startTime + duration * Hour
    ]_vars

\* C22: a step that creates an auction creates it on an NFT that exists and
\* is not sold, for a seller who owns the NFT or is an admin.
C22_AuctionOnlyForOwnerUnsold ==
    [][Len(auctions') > Len(auctions)
       => LET a == auctions'[Len(auctions')]
          IN  /\ NFTExists(a.nftId)
              /\ ~nfts[a.nftId].isSold
              /\ nfts[a.nftId].ownerId = a.sellerId \/ isAdmin(a.sellerId)
    ]_vars

---------------------------------------------------------------------------
(* The registration desk: clients register the account carol with every    *)
(* preferredCurrency that the characters of the model spell, up to         *)
(* MaxCodeLen characters, or with none.                                    *)

MaxCodeLen == 3

Chars == {"e", "u", "r", "R", "ß"}

RECURSIVE StringsOf(_)
\* The strings of exactly n characters.
StringsOf(n) ==
    IF n = 0 THEN {<<>>}
    ELSE {<<c>> \o v : c \in Chars, v \in StringsOf(n - 1)}

BodyInputs ==
    {[provided |-> FALSE, preferredCurrency |-> <<>>]}
    \cup {[provided |-> TRUE, preferredCurrency |-> v] :
             v \in UNION {StringsOf(n) : n \in 0..MaxCodeLen}}

Register(r) ==
    \/ \E body \in BodyInputs : RegisterBegin(r, "ip1", "carol", body)
    \/ RegisterCommit(r)

NextRegister ==
    \/ Register(1)
    \/ Fail(1)

SpecRegister == Init /\ [][NextRegister]_vars

\* This step is a registration request passing through safeParse.
RegisterRead ==
    /\ Free(1)
    /\ \/ reqs'[1].kind = "register"
       \/ reqs' = reqs /\ response'.kind = "register"

RegisterRequest == IF reqs' = reqs THEN response' ELSE reqs'[1]

\* C23: a registration with a preferredCurrency passes validation exactly
\* when the value has 3 characters and its upper-cased form is a supported
\* code, and the parsed value is that upper-cased form; a registration
\* without one parses to USD; the account is created with the parsed code.
C23_PreferredCurrency ==
    /\ [][RegisterRead =>
            LET req == RegisterRequest
                v == req.body.preferredCurrency
            IN  IF req.body.provided
                THEN /\ (req.result # "ValidationFailed")
                          <=> (Len(v) = 3 /\ toUpperCase(v) \in {USD, EUR, RSD})
                     /\ req.result # "ValidationFailed"
                          => req.preferredCurrency = toUpperCase(v)
                ELSE /\ req.result # "ValidationFailed"
                     /\ req.preferredCurrency = USD
       ]_vars
    /\ [](\A k \in DOMAIN accounts : accounts[k].preferredCurrency \in {USD, EUR, RSD})
    /\ []((response.kind = "register" /\ response.result = "ok")
           => accounts[response.email].preferredCurrency = response.preferredCurrency)

\* carol is registered with EUR from a preferredCurrency given in lower case.
C23_Witness ==
    /\ response.kind = "register"
    /\ response.result = "ok"
    /\ response.body.preferredCurrency = <<"e", "u", "r">>
    /\ "carol" \in DOMAIN accounts
    /\ accounts["carol"].preferredCurrency = EUR

---------------------------------------------------------------------------
(* The front door: login and registration requests from two client         *)
(* addresses, one request at a time, while the clock runs.                 *)

IPInputs == {"ip1", "ip2"}

FrontDoor(r) ==
    \/ \E ip \in IPInputs, emailOrUsername \in {"alice", "nobody"},
          password \in {"secret", "wrong"} :
           Login(r, ip, emailOrUsername, password)
    \/ \E email \in {"carol"} :
           RegisterBegin(r, "ip1", email, [provided |-> FALSE, preferredCurrency |-> <<>>])
    \/ RegisterCommit(r)

NextFrontDoor ==
    \/ FrontDoor(1)
    \/ Fail(1)
    \/ Tick
    \/ Moment

SpecFrontDoor == Init /\ [][NextFrontDoor]_vars

\* The window of the identifier is open and has counted max requests.
Exhausted(identifier, max) ==
    /\ identifier \in DOMAIN rateLimitMap
    /\ ~(rateLimitMap[identifier].resetTime < now)
    /\ rateLimitMap[identifier].count >= max

\* C24: a login request from an address whose window has counted 10
\* requests, and a registration request from an address whose window has
\* counted 5, is answered 429 and goes no further.
C24_AuthRateLimited ==
    [][/\ \A ip \in IPInputs :
            (/\ Free(1) /\ reqs' = reqs
             /\ response'.kind = "login" /\ response'.ip = ip
             /\ Exhausted(<<"login", ip>>, LOGIN_MAX))
            => response'.result = "TooManyRequests"
       /\ \A ip \in IPInputs :
            (/\ RegisterRead /\ RegisterRequest.ip = ip
             /\ Exhausted(<<"register", ip>>, REGISTER_MAX))
            => /\ reqs' = reqs
               /\ response'.result = "TooManyRequests"
    ]_vars

---------------------------------------------------------------------------
(* The balance under concurrent mints (SpecNFT).                           *)

\* C25: no user's balance is below zero, however the mint requests
\* interleave.
C25_BalanceNeverNegative ==
    \A u \in Users : availableBalance(u) >= 0

---------------------------------------------------------------------------
(* Approvals repeated and revoked (SpecWithdrawal).                        *)

\* The WITHDRAWAL rows of the ledger.
WithdrawalRows == {i \in Idx(transactions) : transactions[i].type = "WITHDRAWAL"}

\* C26: the ledger holds at most one WITHDRAWAL row for each withdrawal
\* request.
C26_OneWithdrawalPerRequest ==
    Cardinality(WithdrawalRows) <= Len(withdrawalRequests)

\* The second half of C26: when no approval is in flight, a request whose
\* status is DENIED has no WITHDRAWAL row in the ledger.
C26_DeniedHasNoWithdrawal ==
    (\A r \in Slots : Free(r))
    => \A w \in Idx(withdrawalRequests) :
           withdrawalRequests[w].status = "DENIED" => WithdrawalRowsFor(w) = {}

---------------------------------------------------------------------------
(* A purchase and the balances (SpecNFT).                                  *)

\* This step commits the purchase of slot r.
PurchaseSucceeds(r) ==
    /\ reqs[r].kind = "purchase"
    /\ reqs[r].pc = "commit"
    /\ Acts(r)
    /\ response'.kind = "purchase"
    /\ response'.result = "ok"

\* C27: a successful purchase changes no user's computed balance, the
\* buyer's and the previous owner's included, in either balance formula; and
\* a purchase request for a listed, unsold NFT of another owner passes the
\* checks on the NFT row whatever the buyer's balance is.
C27_PurchaseLeavesBalances ==
    /\ [][\A r \in Slots :
            PurchaseSucceeds(r)
            => \A u \in Users :
                   /\ availableBalance(u)' = availableBalance(u)
                   /\ walletBalance(u)' = walletBalance(u)
       ]_vars
    /\ [][\A r \in Slots :
            (/\ PurchaseRead(r)
             /\ NFTExists(PurchaseRequest(r).nftId)
             /\ ~Unavailable(nfts[PurchaseRequest(r).nftId])
             /\ nfts[PurchaseRequest(r).nftId].ownerId # PurchaseRequest(r).user)
            => /\ Acts(r)
               /\ reqs'[r].pc = "auctionCheck"
       ]_vars

\* A purchase has succeeded for a buyer whose balance is below the price,
\* from an owner who has a balance.
C27_Witness ==
    /\ response.kind = "purchase"
    /\ response.result = "ok"
    /\ response.price > 0
    /\ availableBalance(response.user) < response.price
    /\ \E u \in Users : u # response.user /\ availableBalance(u) > 0

---------------------------------------------------------------------------
(* The withdrawal PIN: POST verify withdrawal PIN, and the stage           *)
(* 'withdrawalPin' of POST user compliance.                                *)

\* attempts >= 5
PIN_MAX_ATTEMPTS == 5
\* 10 * 60_000 ms, in seconds
PIN_LOCK == 600
\* rateLimit(`compliance:${userId}`, 30, 60_000)
COMPLIANCE_MAX == 30
COMPLIANCE_WINDOW == 60
\* rateLimit(`compliance:withdrawalPin:fail:${userId}`, 5, 10 * 60_000)
PIN_FAIL_MAX == 5
PIN_FAIL_WINDOW == 600

\* bcrypt.compare: the hash of a PIN is modelled by the PIN.
verifyPassword(value, hash) == value = hash

\* u.withdrawalPinLockedUntil && ... .getTime() > Date.now()
PinLocked(account) ==
    /\ account.withdrawalPinLockedUntil # Null
    /\ account.withdrawalPinLockedUntil > now

\* POST verify withdrawal PIN: findUnique, the lock check, verifyPassword and
\* the data of the update that follows.
VerifyPinBegin(r, u, value) ==
    /\ Free(r)
    /\ LET req == [IdleReq EXCEPT !.kind = "verifyPin", !.user = u, !.value = value]
           account == accounts[u]
           ok == verifyPassword(value, account.withdrawalPinHash)
           attempts == account.withdrawalPinAttempts + 1
       IN
       Proceed(r,
           IF account.withdrawalPinHash = "none" THEN
               Respond(req, "NotConfigured")
           ELSE IF PinLocked(account) THEN
               Respond(req, "TooManyAttempts")
           ELSE IF ~ok THEN
               [req EXCEPT !.pc = "commit", !.ok = FALSE, !.attempts = attempts,
                           !.lockUntil = IF attempts >= PIN_MAX_ATTEMPTS
                                         THEN now + PIN_LOCK ELSE Null]
           ELSE
               [req EXCEPT !.pc = "commit", !.ok = TRUE])
    /\ UNCHANGED <<now, access, tables>>

\* db.user.update: the failed attempt and the lock, or the validation with
\* the counter and the lock cleared.
VerifyPinCommit(r) ==
    /\ AtPc(r, "verifyPin", "commit")
    /\ IF reqs[r].ok
       THEN /\ accounts' = [accounts EXCEPT ![reqs[r].user] =
                   [@ EXCEPT !.withdrawalPinAttempts = 0,
                             !.withdrawalPinLockedUntil = Null,
                             !.withdrawalPinValidated = TRUE]]
            /\ Proceed(r, Respond(reqs[r], "ok"))
       ELSE /\ accounts' = [accounts EXCEPT ![reqs[r].user] =
                   [@ EXCEPT !.withdrawalPinAttempts = reqs[r].attempts,
                             !.withdrawalPinLockedUntil = reqs[r].lockUntil]]
            /\ Proceed(r, Respond(reqs[r],
                   IF reqs[r].attempts >= PIN_MAX_ATTEMPTS
                   THEN "Locked" ELSE "InvalidPin"))
    /\ UNCHANGED <<now, tables, rateLimitMap, emailVerificationAttempts>>

\* POST user compliance, stage 'withdrawalPin': the limiter of the endpoint.
ComplianceBegin(r, u, value) ==
    /\ Free(r)
    /\ LET req == [IdleReq EXCEPT !.kind = "compliance", !.user = u, !.value = value]
           rl == rateLimit(<<"compliance", u>>, COMPLIANCE_MAX, COMPLIANCE_WINDOW)
       IN
       /\ rateLimitMap' = rl.map
       /\ Proceed(r,
              IF ~rl.success THEN Respond(req, "TooManyRequests")
              ELSE [req EXCEPT !.pc = "verify"])
    /\ UNCHANGED <<now, tables, accounts, emailVerificationAttempts>>

\* findUnique (the hashes), verifyPassword, and the limiter of failed PINs.
ComplianceVerify(r) ==
    /\ AtPc(r, "compliance", "verify")
    /\ LET current == accounts[reqs[r].user]
           ok == verifyPassword(reqs[r].value, current.withdrawalPinHash)
           failRl == rateLimit(<<"compliance:withdrawalPin:fail", reqs[r].user>>,
                               PIN_FAIL_MAX, PIN_FAIL_WINDOW)
       IN
       IF current.withdrawalPinHash = "none" THEN
           /\ Proceed(r, Respond(reqs[r], "NotConfigured"))
           /\ UNCHANGED rateLimitMap
       ELSE IF ~ok THEN
           /\ rateLimitMap' = failRl.map
           /\ Proceed(r, Respond(reqs[r],
                  IF ~failRl.success THEN "TooManyRequests" ELSE "InvalidPin"))
       ELSE
           /\ Proceed(r, [reqs[r] EXCEPT !.pc = "commit", !.ok = TRUE])
           /\ UNCHANGED rateLimitMap
    /\ UNCHANGED <<now, tables, accounts, emailVerificationAttempts>>

\* db.user.update({ data: updates }), updates = { withdrawalPinValidated: true }
ComplianceCommit(r) ==
    /\ AtPc(r, "compliance", "commit")
    /\ accounts' = [accounts EXCEPT ![reqs[r].user].withdrawalPinValidated = TRUE]
    /\ Proceed(r, Respond(reqs[r], "ok"))
    /\ UNCHANGED <<now, tables, rateLimitMap, emailVerificationAttempts>>

---------------------------------------------------------------------------
(* The PIN desk: an admin has configured the withdrawal PIN of alice; bob  *)
(* has none.  Requests arrive at both endpoints, with the PIN or another.  *)

PinInputs == {"1234", "0000"}

\* The requests of one user at the compliance endpoint within one window of
\* its limiter.
MaxCalls == 7

CallsInWindow(u) ==
    IF <<"compliance", u>> \in DOMAIN CleanedUp
    THEN rateLimitMap[<<"compliance", u>>].count ELSE 0

InitPin ==
    /\ now = 0
    /\ nfts = <<>>
    /\ transactions = <<>>
    /\ auctions = <<>>
    /\ bids = <<>>
    /\ stockPurchases = <<>>
    /\ withdrawalRequests = <<>>
    /\ accounts = [InitialAccounts EXCEPT !["alice"].withdrawalPinHash = "1234"]
    /\ rateLimitMap = <<>>
    /\ emailVerificationAttempts = <<>>
    /\ reqs = [r \in Slots |-> IdleReq]
    /\ response = IdleReq

VerifyPin(r) ==
    \/ \E u \in {"alice", "bob"}, value \in PinInputs : VerifyPinBegin(r, u, value)
    \/ VerifyPinCommit(r)

Compliance(r) ==
    \/ \E value \in PinInputs :
           /\ CallsInWindow("alice") < MaxCalls
           /\ ComplianceBegin(r, "alice", value)
    \/ ComplianceVerify(r)
    \/ ComplianceCommit(r)

NextPin ==
    \/ VerifyPin(1)
    \/ Compliance(1)
    \/ Fail(1)
    \/ Tick
    \/ Moment

SpecPin == InitPin /\ [][NextPin]_vars

\* C28: while the PIN of a user is locked, no step sets the user's
\* withdrawalPinValidated to true.
C28_LockedPinNotValidated ==
    [][\A u \in DOMAIN accounts :
          (PinLocked(accounts[u]) /\ ~accounts[u].withdrawalPinValidated)
          => ~accounts'[u].withdrawalPinValidated
    ]_vars

---------------------------------------------------------------------------
(* POST verify-email: a verification link for an email address.            *)

\* rateLimit(rlKey, 5, 15 * 60_000)
VERIFY_EMAIL_MAX == 5

\* NextResponse.json(body, { status }): the status, the names of the body's
\* fields, and the values of `success` and of `message` or `error`.
Reply(status, fields, success, text) ==
    [status |-> status, fields |-> fields, success |-> success, text |-> text]

\* The response after the user query, in a run whose email is delivered or
\* not (`ok`); `user` tells whether the query found a row.
VerifyEmailReply(user, isPrivate, ok) ==
    IF ~user THEN
        IF isPrivate
        THEN Reply(404, {"success", "error", "guidance"}, FALSE, "Email not registered")
        ELSE Reply(200, {"success", "message"}, TRUE,
                   "If this email is registered, a message has been sent.")
    ELSE IF ~ok THEN
        Reply(502, {"success", "error"}, FALSE,
              "Failed to send email. Please try again later.")
    ELSE
        Reply(200, {"success", "message", "sentAt", "eta"}, TRUE,
              "Verification email sent")

\* The row of emailVerificationAttempt.create.
VerificationAttempt(email, user, ok) ==
    IF ~user THEN [email |-> email, outcome |-> "UNKNOWN", reason |-> "not_found"]
    ELSE IF ~ok THEN [email |-> email, outcome |-> "ERROR", reason |-> "email_failed"]
    ELSE [email |-> email, outcome |-> "SENT", reason |-> "ok"]

\* The check of the email (an empty one is refused; every other input of the
\* model has the form the pattern asks for) and the limiter's call.
VerifyEmailBegin(r, email, context, ip) ==
    /\ Free(r)
    /\ LET req == [IdleReq EXCEPT !.kind = "verifyEmail", !.email = email,
                                  !.context = context, !.ip = ip]
           rl == rateLimit(<<"verifyEmail", email, ip>>, VERIFY_EMAIL_MAX, AUTH_WINDOW)
       IN
       IF email = "" THEN
           /\ Proceed(r, [Respond(req, "InvalidEmail") EXCEPT !.reply =
                  Reply(400, {"success", "error"}, FALSE, "Invalid email format")])
           /\ UNCHANGED rateLimitMap
       ELSE
           /\ rateLimitMap' = rl.map
           /\ Proceed(r,
                  IF ~rl.success THEN
                      [Respond(req, "TooManyRequests") EXCEPT !.reply =
                          Reply(429, {"success", "error"}, FALSE,
                                "Too many requests. Try again later.")]
                  ELSE [req EXCEPT !.pc = "lookup"])
    /\ UNCHANGED <<now, tables, accounts, emailVerificationAttempts>>

\* db.user.findUnique fails: 503.
VerifyEmailUnavailable(r) ==
    /\ AtPc(r, "verifyEmail", "lookup")
    /\ Proceed(r, [Respond(reqs[r], "ServiceUnavailable") EXCEPT !.reply =
           Reply(503, {"success", "error"}, FALSE, "Service temporarily unavailable")])
    /\ UNCHANGED <<now, tables, access>>

\* db.user.findUnique and, for a user, sendEmail, which delivers or not.
VerifyEmailLookup(r, ok) ==
    /\ AtPc(r, "verifyEmail", "lookup")
    /\ LET user == reqs[r].email \in DOMAIN accounts
       IN  Proceed(r, [reqs[r] EXCEPT
               !.pc = "commit",
               !.ok = user /\ ok,
               !.outcome = VerificationAttempt(reqs[r].email, user, ok).outcome])
    /\ (reqs[r].email \notin DOMAIN accounts) => ok
    /\ UNCHANGED <<now, tables, access>>

\* emailVerificationAttempt.create, then the response.
VerifyEmailCommit(r) ==
    /\ AtPc(r, "verifyEmail", "commit")
    /\ LET user == reqs[r].outcome # "UNKNOWN"
           ok == reqs[r].outcome # "ERROR"
       IN  /\ emailVerificationAttempts' = Append(emailVerificationAttempts,
                  VerificationAttempt(reqs[r].email, user, ok))
           /\ Proceed(r, [Respond(reqs[r], reqs[r].outcome) EXCEPT !.reply =
                  VerifyEmailReply(user, reqs[r].context = "private", ok)])
    /\ UNCHANGED <<now, tables, accounts, rateLimitMap>>

---------------------------------------------------------------------------
(* The verification desk: requests for the email of alice, for an email    *)
(* that no account has, and without an email, in both contexts.            *)

MaxAttempt == 3

EmailInputs == {"alice", "nobody", ""}

ContextInputs == {"public", "private"}

VerifyEmail(r) ==
    \/ \E email \in EmailInputs, context \in ContextInputs :
           VerifyEmailBegin(r, email, context, "ip1")
    \/ VerifyEmailUnavailable(r)
    \/ \E ok \in BOOLEAN : VerifyEmailLookup(r, ok)
    \/ VerifyEmailCommit(r)

NextVerifyEmail ==
    /\ \/ VerifyEmail(1)
       \/ Fail(1)
       \/ Tick
    /\ Len(emailVerificationAttempts') <= MaxAttempt

SpecVerifyEmail == Init /\ [][NextVerifyEmail]_vars

\* C30: in the public context, the response to a request whose email was
\* delivered or belongs to no account is the response that the run with the
\* other kind of email gets: the same status, the same fields of the body,
\* the same values.
C30_PublicReplyHidesRegistration ==
    [][(/\ response'.kind = "verifyEmail"
        /\ response'.context = "public"
        /\ response'.result \in {"SENT", "UNKNOWN"})
       => response'.reply =
              VerifyEmailReply(response'.email \notin DOMAIN accounts, FALSE, TRUE)
    ]_vars

---------------------------------------------------------------------------
(* The limiter by itself: calls for two identifiers, each always with its  *)
(* own maxRequests and window, while the clock runs.                       *)

\* The arguments that the callers of an identifier pass (the window in
\* seconds).
RateLimitInputs ==
    [login    |-> [maxRequests |-> 2, windowMs |-> 1],
     register |-> [maxRequests |-> 1, windowMs |-> 2 * Hour]]

\* const rl = rateLimit(identifier, maxRequests, windowMs)
RateLimitCall(identifier) ==
    /\ LET p  == RateLimitInputs[identifier]
           rl == rateLimit(identifier, p.maxRequests, p.windowMs)
       IN  /\ rateLimitMap' = rl.map
           /\ response' = [IdleReq EXCEPT !.kind = "rateLimit", !.pc = "done",
                                          !.identifier = identifier,
                                          !.ok = rl.success, !.count = rl.count]
    /\ UNCHANGED <<now, tables, accounts, emailVerificationAttempts, reqs>>

NextRateLimit ==
    \/ \E identifier \in DOMAIN RateLimitInputs : RateLimitCall(identifier)
    \/ Tick
    \/ Moment

SpecRateLimit == Init /\ [][NextRateLimit]_vars

\* The window of identifier k is open: it has an entry whose resetTime has
\* not passed.
WindowOpen(k) == k \in DOMAIN rateLimitMap /\ ~(rateLimitMap[k].resetTime < now)

\* C29: a call for an identifier without an open window succeeds and opens
\* one that ends at now + windowMs, with count 1; a call in an open window
\* with fewer than maxRequests calls counted succeeds and counts itself; a
\* call in an open window that is full fails and leaves the entry as it is;
\* no call changes the entry of another identifier whose window is open; and
\* no entry ever counts more than maxRequests calls.
C29_FixedWindowCounter ==
    /\ [](\A k \in DOMAIN rateLimitMap :
             rateLimitMap[k].count \in 1..RateLimitInputs[k].maxRequests)
    /\ [][response'.kind = "rateLimit"
          => LET k == response'.identifier
                 p == RateLimitInputs[k]
             IN  /\ k \in DOMAIN rateLimitMap'
                 /\ response'.count = rateLimitMap'[k].count
                 /\ IF ~WindowOpen(k) THEN
                        /\ response'.ok
                        /\ rateLimitMap'[k] =
                               [count |-> 1, resetTime |-> now + p.windowMs]
                    ELSE IF rateLimitMap[k].count < p.maxRequests THEN
                        /\ response'.ok
                        /\ rateLimitMap'[k] =
                               [rateLimitMap[k] EXCEPT !.count = @ + 1]
                    ELSE
                        /\ ~response'.ok
                        /\ rateLimitMap'[k] = rateLimitMap[k]
                 /\ \A j \in DOMAIN rateLimitMap :
                        (j # k /\ WindowOpen(j))
                        => j \in DOMAIN rateLimitMap'
                           /\ rateLimitMap'[j] = rateLimitMap[j]
       ]_vars

\* A call was refused in a full window, opened after the clock had run for
\* more than an hour, at the very second at which that window ends, while
\* the window of the other identifier is open.
C29_Witness ==
    /\ response.kind = "rateLimit"
    /\ ~response.ok
    /\ response.count = RateLimitInputs[response.identifier].maxRequests
    /\ rateLimitMap[response.identifier].resetTime = now
    /\ now > Hour
    /\ \E j \in DOMAIN rateLimitMap : j # response.identifier /\ WindowOpen(j)

=============================================================================
